---- MODULE Spec2Model ----
(***************************************************************************)
(* Model of the MLM distribution engine of fature-mlm-service-v2:          *)
(*   MLMService  (src/src/services/mlmService.js)                          *)
(*   MLMModel    (src/src/jobs/cpaProcessingJob.js, lines 575-1032)        *)
(*   schema      (src/unnamed/part_002, createTables / insertTestData)     *)
(*   ConfigClient(src/unnamed/part_001)                                    *)
(* Money is counted in whole units (integers); only comparisons and sums   *)
(* of amounts are used by the code that is modelled.                       *)
(***************************************************************************)
EXTENDS Integers, Sequences, FiniteSets, TLC

VARIABLES
    probe,          \* the call of a pure function under examination: its inputs and its result
    mlm_hierarchy,  \* table mlm_hierarchy: affiliate_id -> row (or an absent row)
    reparents,      \* number of re-parenting upsertAffiliate calls made so far
    provider,       \* the configuration provider: reachable or not, and the values it holds
    clientCache,    \* ConfigClient.cache / cacheTTL: key -> entry
    configCache,    \* MLMService.configCache: key -> entry
    cpa_validados,  \* table cpa_validados (Commission Events)
    cpa_distributions,  \* table cpa_distributions (Distribution Records)
    mlm_statistics, \* table mlm_statistics of the current period: affiliate_id -> row
    mlm_operation_logs, \* table mlm_operation_logs (audit entries), in insertion order
    call,           \* the processCpaForDistribution call in progress: its locals and position
    calls           \* number of processCpaForDistribution calls started so far

hierVars == <<mlm_hierarchy, reparents>>
configVars == <<provider, clientCache, configCache>>
storeVars == <<cpa_validados, cpa_distributions, mlm_statistics, mlm_operation_logs>>
flowVars == <<configVars, storeVars, call, calls>>
vars == <<probe, hierVars, flowVars>>

(***************************************************************************)
(* Bounds of the model.                                                    *)
(***************************************************************************)
MaxGroups == 2          \* groups in a rule set
MaxTableLevel == 3      \* the payout tables hold levels 2..MaxTableLevel
MaxUplineLen == 2       \* entries of an upline handed to calculateDistributions
MaxLevelsArg == 3       \* getAffiliateUpline is called with maxLevels in 1..MaxLevelsArg
MaxReparents == 2       \* re-parenting upsertAffiliate calls in one behaviour

Min(a, b) == IF a < b THEN a ELSE b

(***************************************************************************)
(* Table mlm_hierarchy: one row per affiliate_id (CONSTRAINT               *)
(* unique_affiliate), so the table is a function from the ids to rows.     *)
(***************************************************************************)
AffiliateIds == {1, 2, 3}                       \* the affiliate ids of the hierarchy that is edited
NullId == 0                                     \* SQL NULL / JS null in parent_id
MaxStoredLevel == 10                            \* CONSTRAINT valid_level

AbsentRow == [present |-> FALSE, parent_id |-> NullId, level |-> 0, path |-> <<>>,
              active |-> FALSE]
EmptyHierarchy == [a \in AffiliateIds |-> AbsentRow]
IdleProbe == [fn |-> "none", returned |-> FALSE]

(***************************************************************************)
(* Configuration values and the two caches in front of the provider:       *)
(* ConfigClient.cache / cacheTTL and MLMService.configCache.  A value is a *)
(* record whose field present is FALSE for JS null.                        *)
(***************************************************************************)
ConfigKeys == {"cpa_level_amounts", "mlm_settings", "cpa_validation_rules"}

\* the fallbacks ConfigClient returns when the provider cannot be asked
FallbackCpaLevelAmounts ==
    [present |-> TRUE, amounts |-> (1 :> 50 @@ 2 :> 20 @@ 3 :> 5 @@ 4 :> 5 @@ 5 :> 5)]
FallbackCpaValidationRules ==
    [present |-> TRUE, hasGroups |-> TRUE, groups |-> <<>>, group_operator |-> "OR"]

\* getConfig(key, defaultValue = null): the default of every key the service asks for
NullValue(key) ==
    CASE key = "cpa_level_amounts" -> [present |-> FALSE, amounts |-> <<>>]
      [] key = "mlm_settings" -> [present |-> FALSE, max_hierarchy_levels |-> 0,
                                  minimum_amount |-> 0, currency |-> ""]
      [] OTHER -> [present |-> FALSE, hasGroups |-> FALSE, groups |-> <<>>,
                   group_operator |-> "OR"]

\* a JS Map is a function from its keys: new Map(), has, set, delete
EmptyMap == << >>
Has(map, key) == key \in DOMAIN map
Set(map, key, value) == (key :> value) @@ map
Delete(map, key) == [k \in DOMAIN map \ {key} |-> map[k]]

(***************************************************************************)
(* The tables the distribution flow writes, and the call in progress.      *)
(***************************************************************************)
StatLevels == 1..5      \* the columns level_1_* .. level_5_* of mlm_statistics
\* mlm_statistics holds at most one row per affiliate (unique_affiliate_period, one period)
EmptyStatistics == << >>

\* no processCpaForDistribution call has been made
NoCall == [pc |-> "idle"]

\* the state of the service before any processCpaForDistribution call
FlowAtRest ==
    /\ provider = [cpa_level_amounts |-> FallbackCpaLevelAmounts,
                   mlm_settings |-> NullValue("mlm_settings"),
                   cpa_validation_rules |-> FallbackCpaValidationRules]
    /\ clientCache = EmptyMap
    /\ configCache = EmptyMap
    /\ cpa_validados = {}
    /\ cpa_distributions = {}
    /\ mlm_statistics = EmptyStatistics
    /\ mlm_operation_logs = <<>>
    /\ call = NoCall
    /\ calls = 0

(***************************************************************************)
(* Eligibility validation: MLMService.validateCpa.                         *)
(***************************************************************************)
\* The four types the switch handles, and one it does not.
CriterionTypes == {"deposit", "bets", "bet_amount", "days_active", "loyalty"}
Operators == {"AND", "OR"}
MeasuredValues == {0, 1}
Thresholds == {1}

Criteria == [type : CriterionTypes, value : Thresholds, enabled : BOOLEAN]
CpaDatas == [depositAmount : MeasuredValues, betsCount : MeasuredValues,
             totalBetAmount : MeasuredValues, daysActive : MeasuredValues]

\* switch (criteria.type) { ... default: result = false }
CriterionResult(criteria, cpaData) ==
    CASE criteria.type = "deposit"     -> cpaData.depositAmount >= criteria.value
      [] criteria.type = "bets"        -> cpaData.betsCount >= criteria.value
      [] criteria.type = "bet_amount"  -> cpaData.totalBetAmount >= criteria.value
      [] criteria.type = "days_active" -> cpaData.daysActive >= criteria.value
      [] OTHER                         -> FALSE

\* A plausible slip: a disabled criterion is pushed as a failed one instead of skipped.
RECURSIVE criteriaResultsCountingDisabled(_, _)
criteriaResultsCountingDisabled(criteria, cpaData) ==
    IF criteria = <<>> THEN <<>>
    ELSE LET c == Head(criteria)
         IN  <<c.enabled /\ CriterionResult(c, cpaData)>>
                 \o criteriaResultsCountingDisabled(Tail(criteria), cpaData)

\* for (const criteria of group.criteria) { if (!criteria.enabled) continue; ... push(result) }
RECURSIVE criteriaResults(_, _)
criteriaResults(criteria, cpaData) ==
    IF criteria = <<>> THEN <<>>
    ELSE LET c == Head(criteria)
             rest == criteriaResults(Tail(criteria), cpaData)
         IN  IF ~c.enabled THEN rest ELSE <<CriterionResult(c, cpaData)>> \o rest

\* Array.prototype.every / some over an array of booleans
every(results) == \A i \in 1..Len(results) : results[i]
some(results) == \E i \in 1..Len(results) : results[i]

\* A plausible slip: OR over no results taken as satisfied.
groupResultEmptyOrTrue(group, cpaData) ==
    LET rs == criteriaResults(group.criteria, cpaData)
    IN  IF group.operator = "AND" THEN every(rs) ELSE (rs = <<>> \/ some(rs))

\* if (group.operator === 'AND') every else some
groupResult(group, cpaData) ==
    LET rs == criteriaResults(group.criteria, cpaData)
    IN  IF group.operator = "AND" THEN every(rs) ELSE some(rs)

groupResults(groups, cpaData) ==
    [i \in 1..Len(groups) |-> groupResult(groups[i], cpaData)]

\* for...of over a group without a criteria array throws; the catch returns false
Throws(validationRules) ==
    \E i \in 1..Len(validationRules.groups) : ~validationRules.groups[i].hasCriteria

\* The guard of lines 136-139.
NoRules(validationRules) ==
    \/ ~validationRules.present
    \/ ~validationRules.hasGroups
    \/ Len(validationRules.groups) = 0

\* A plausible slip: an empty or absent rule set rejects (fail-closed).
validateCpaFailClosed(validationRules, cpaData) ==
    IF NoRules(validationRules) THEN FALSE
    ELSE IF Throws(validationRules) THEN FALSE
    ELSE LET grs == groupResults(validationRules.groups, cpaData)
         IN  IF validationRules.group_operator = "AND" THEN every(grs) ELSE some(grs)

validateCpa(validationRules, cpaData) ==
    IF NoRules(validationRules) THEN TRUE
    ELSE IF Throws(validationRules) THEN FALSE
    ELSE LET grs == groupResults(validationRules.groups, cpaData)
         IN  IF validationRules.group_operator = "AND" THEN every(grs) ELSE some(grs)

(***************************************************************************)
(* The rule sets and events validateCpa is examined on.                    *)
(***************************************************************************)
\* groups with exactly k criteria
GroupsWith(k) ==
    {[operator |-> op, hasCriteria |-> TRUE, criteria |-> cs] :
        op \in Operators, cs \in [1..k -> Criteria]}

\* the numbers of criteria a rule set holds, over all its groups
CriteriaCounts == {0, 1, 2}

\* lists of at most g groups holding c criteria together, c or fewer being in CriteriaCounts
RECURSIVE GroupLists(_, _)
GroupLists(g, c) ==
    IF g = 0 THEN {<<>>}
    ELSE {<<>>} \cup UNION {UNION {{<<grp>> \o rest : rest \in GroupLists(g - 1, c - k)} :
                                      grp \in GroupsWith(k)} :
                                k \in {n \in CriteriaCounts : n <= c}}

MostCriteria == CHOOSE n \in CriteriaCounts : \A m \in CriteriaCounts : m <= n

\* a group that carries no criteria array (a malformed payload of the provider)
GroupsWithoutCriteria ==
    {[operator |-> op, hasCriteria |-> FALSE, criteria |-> <<>>] : op \in Operators}

AbsentRules == [present |-> FALSE, hasGroups |-> FALSE, groups |-> <<>>, group_operator |-> "OR"]
RulesWithoutGroups == [present |-> TRUE, hasGroups |-> FALSE, groups |-> <<>>, group_operator |-> "OR"]

RuleSets ==
    {AbsentRules, RulesWithoutGroups}
    \cup {[present |-> TRUE, hasGroups |-> TRUE, groups |-> gs, group_operator |-> op] :
            gs \in GroupLists(MaxGroups, MostCriteria)
                    \cup {<<g>> : g \in GroupsWithoutCriteria}
                    \cup {<<g, h>> : g \in GroupsWith(0), h \in GroupsWithoutCriteria},
            op \in Operators}

InitValidate ==
    /\ \E rs \in RuleSets, d \in CpaDatas :
          probe = [fn |-> "validateCpa", validationRules |-> rs, cpaData |-> d,
                   returned |-> FALSE, result |-> FALSE]
    /\ mlm_hierarchy = EmptyHierarchy
    /\ reparents = 0
    /\ FlowAtRest

\* one call validateCpa(userId, cpaData, validationRules)
ValidateCpa ==
    /\ probe.fn = "validateCpa"
    /\ ~probe.returned
    /\ probe' = [probe EXCEPT !.returned = TRUE,
                              !.result = validateCpa(probe.validationRules, probe.cpaData)]
    /\ UNCHANGED <<mlm_hierarchy, reparents, flowVars>>

NextValidate == ValidateCpa

SpecValidate == InitValidate /\ [][NextValidate]_vars

(***************************************************************************)
(* Claims about validateCpa.                                               *)
(***************************************************************************)
WellFormed(validationRules) == ~Throws(validationRules)

EnabledOf(group) == {i \in 1..Len(group.criteria) : group.criteria[i].enabled}

MeasuredOf(cpaData, type) ==
    IF type = "deposit" THEN cpaData.depositAmount
    ELSE IF type = "bets" THEN cpaData.betsCount
    ELSE IF type = "bet_amount" THEN cpaData.totalBetAmount
    ELSE cpaData.daysActive

KnownTypes == {"deposit", "bets", "bet_amount", "days_active"}

RefCriterion(c, cpaData) ==
    c.type \in KnownTypes /\ MeasuredOf(cpaData, c.type) >= c.value

RefGroup(group, cpaData) ==
    IF group.operator = "AND"
    THEN \A i \in EnabledOf(group) : RefCriterion(group.criteria[i], cpaData)
    ELSE \E i \in EnabledOf(group) : RefCriterion(group.criteria[i], cpaData)

RefRules(validationRules, cpaData) ==
    IF validationRules.group_operator = "AND"
    THEN \A i \in 1..Len(validationRules.groups) : RefGroup(validationRules.groups[i], cpaData)
    ELSE \E i \in 1..Len(validationRules.groups) : RefGroup(validationRules.groups[i], cpaData)

ValidateReturned == probe.fn = "validateCpa" /\ probe.returned

\* C5: for every rule set with at least one group (each group carrying its list of
\* criteria) and every tuple of measured attributes, validateCpa returns the reference
\* evaluation: enabled criteria compare measured >= threshold, an unknown type is false,
\* disabled criteria are not counted, a group is the AND/OR of its criteria and the
\* result the AND/OR of the groups.
C5_ValidateMatchesReference ==
    (/\ ValidateReturned
     /\ ~NoRules(probe.validationRules)
     /\ WellFormed(probe.validationRules))
    => probe.result = RefRules(probe.validationRules, probe.cpaData)

\* C5 witness: a returned call on two groups, one of them holding a disabled criterion
\* and a criterion of unknown type, where the reference evaluation accepts.
C5_Witness ==
    /\ ValidateReturned
    /\ WellFormed(probe.validationRules)
    /\ Len(probe.validationRules.groups) = 2
    /\ \E i \in 1..2 : \E j \in 1..Len(probe.validationRules.groups[i].criteria) :
          ~probe.validationRules.groups[i].criteria[j].enabled
    /\ \E i \in 1..2 : \E j \in 1..Len(probe.validationRules.groups[i].criteria) :
          /\ probe.validationRules.groups[i].criteria[j].enabled
          /\ probe.validationRules.groups[i].criteria[j].type = "loyalty"
    /\ probe.result = TRUE

\* C6: validateCpa returns true for any measured attributes when the rule set is
\* absent, has no groups field, or has an empty list of groups.
C6_EmptyRulesAccept ==
    (ValidateReturned /\ NoRules(probe.validationRules)) => probe.result = TRUE

\* C6 witness: a returned call on a present rule set whose groups list is empty, for an
\* event that measures nothing.
C6_Witness ==
    /\ ValidateReturned
    /\ probe.validationRules.present
    /\ probe.validationRules.hasGroups
    /\ probe.validationRules.groups = <<>>
    /\ probe.cpaData.depositAmount = 0
    /\ probe.cpaData.betsCount = 0
    /\ probe.result = TRUE

NoEnabledCriteria(group) == group.hasCriteria /\ EnabledOf(group) = {}

\* C7: a group with no enabled criteria evaluates to true under AND and to false under
\* OR; a rule set made of a single OR group with zero enabled criteria is rejected for
\* any attributes (and one made of a single such AND group is accepted).
C7_VacuousGroup ==
    (/\ ValidateReturned
     /\ Len(probe.validationRules.groups) = 1
     /\ probe.validationRules.hasGroups
     /\ NoEnabledCriteria(probe.validationRules.groups[1]))
    => /\ groupResult(probe.validationRules.groups[1], probe.cpaData)
            = (probe.validationRules.groups[1].operator = "AND")
       /\ probe.result = (probe.validationRules.groups[1].operator = "AND")

\* C7 witness: a returned, rejected call on a single OR group whose only criterion is
\* disabled, for an event that would satisfy that criterion.
C7_Witness ==
    /\ ValidateReturned
    /\ probe.validationRules.hasGroups
    /\ Len(probe.validationRules.groups) = 1
    /\ probe.validationRules.groups[1].operator = "OR"
    /\ Len(probe.validationRules.groups[1].criteria) = 1
    /\ ~probe.validationRules.groups[1].criteria[1].enabled
    /\ probe.validationRules.groups[1].criteria[1].type = "deposit"
    /\ probe.cpaData.depositAmount = 1
    /\ probe.result = FALSE

(***************************************************************************)
(* Distribution calculation: MLMService.calculateDistributions.            *)
(***************************************************************************)
\* cpaAmounts: level -> amount, for the levels level_<k> the table holds
HasLevel(cpaAmounts, level) == level \in DOMAIN cpaAmounts

\* A plausible slip: the level is not compared with max_hierarchy_levels.
PayableAnyLevel(affiliate, cpaAmounts, mlmSettings) ==
    /\ HasLevel(cpaAmounts, affiliate.upline_level)
    /\ cpaAmounts[affiliate.upline_level] # 0
    /\ cpaAmounts[affiliate.upline_level] > 0

\* if (amount && amount > 0 && affiliate.upline_level <= mlmSettings.max_hierarchy_levels)
Payable(affiliate, cpaAmounts, mlmSettings) ==
    /\ HasLevel(cpaAmounts, affiliate.upline_level)
    /\ cpaAmounts[affiliate.upline_level] # 0
    /\ cpaAmounts[affiliate.upline_level] > 0
    /\ affiliate.upline_level <= mlmSettings.max_hierarchy_levels

\* mlmSettings.currency || 'BRL'
CurrencyOf(mlmSettings) == IF mlmSettings.currency = "" THEN "BRL" ELSE mlmSettings.currency

Distribution(affiliate, cpaAmounts, mlmSettings) ==
    [affiliate_id |-> affiliate.affiliate_id,
     affiliate_level |-> affiliate.upline_level,
     amount |-> cpaAmounts[affiliate.upline_level],
     currency |-> CurrencyOf(mlmSettings)]

\* for (const affiliate of upline) { ... distributions.push(...) }
RECURSIVE calculateDistributions(_, _, _)
calculateDistributions(upline, cpaAmounts, mlmSettings) ==
    IF upline = <<>> THEN <<>>
    ELSE LET rest == calculateDistributions(Tail(upline), cpaAmounts, mlmSettings)
         IN  IF Payable(Head(upline), cpaAmounts, mlmSettings)
             THEN <<Distribution(Head(upline), cpaAmounts, mlmSettings)>> \o rest
             ELSE rest

(***************************************************************************)
(* The uplines, tables and settings calculateDistributions is examined on. *)
(***************************************************************************)
TableLevels == 2..MaxTableLevel
UplineLevels == 2..(MaxTableLevel + 1)
TableAmounts == {-5, 0, 5, 20}
PayeeIds == {456, 789}

\* every table over a subset of the levels (a level outside the subset has no entry)
PayoutTables == UNION {[ls -> TableAmounts] : ls \in SUBSET TableLevels}

UplineEntries == [affiliate_id : PayeeIds, upline_level : UplineLevels]
Uplines == UNION {[1..n -> UplineEntries] : n \in 0..MaxUplineLen}

CalcSettings == [max_hierarchy_levels : UplineLevels, currency : {"", "USD"}]

InitCalculate ==
    /\ \E u \in Uplines, t \in PayoutTables, st \in CalcSettings :
          probe = [fn |-> "calculateDistributions", upline |-> u, cpaAmounts |-> t,
                   mlmSettings |-> st, returned |-> FALSE, result |-> <<>>]
    /\ mlm_hierarchy = EmptyHierarchy
    /\ reparents = 0
    /\ FlowAtRest

\* one call calculateDistributions(upline, cpaAmounts, mlmSettings)
CalculateDistributions ==
    /\ probe.fn = "calculateDistributions"
    /\ ~probe.returned
    /\ probe' = [probe EXCEPT !.returned = TRUE,
                              !.result = calculateDistributions(probe.upline, probe.cpaAmounts,
                                                                probe.mlmSettings)]
    /\ UNCHANGED <<mlm_hierarchy, reparents, flowVars>>

NextCalculate == CalculateDistributions

SpecCalculate == InitCalculate /\ [][NextCalculate]_vars

(***************************************************************************)
(* Claims about calculateDistributions.                                    *)
(***************************************************************************)
CalculateReturned == probe.fn = "calculateDistributions" /\ probe.returned

\* the positions of the upline that are to be paid, stated from the table alone
PaidPositions ==
    {i \in 1..Len(probe.upline) :
        /\ probe.upline[i].upline_level \in DOMAIN probe.cpaAmounts
        /\ probe.cpaAmounts[probe.upline[i].upline_level] > 0
        /\ probe.upline[i].upline_level <= probe.mlmSettings.max_hierarchy_levels}

\* the j-th paid position, in upline order
PaidPosition(j) ==
    CHOOSE i \in PaidPositions : Cardinality({k \in PaidPositions : k <= i}) = j

RECURSIVE SumAmounts(_)
SumAmounts(ds) == IF ds = <<>> THEN 0 ELSE Head(ds).amount + SumAmounts(Tail(ds))

\* C4: calculateDistributions returns, in upline order, exactly one distribution for
\* each upline entry whose level has a table amount > 0 and is <= max_hierarchy_levels,
\* carrying that entry's affiliate and level and the table amount of the level; all
\* other entries are skipped.
C4_CalculateDistributions ==
    CalculateReturned =>
        /\ Len(probe.result) = Cardinality(PaidPositions)
        /\ \A j \in 1..Len(probe.result) :
              /\ probe.result[j].affiliate_id = probe.upline[PaidPosition(j)].affiliate_id
              /\ probe.result[j].affiliate_level = probe.upline[PaidPosition(j)].upline_level
              /\ probe.result[j].amount
                    = probe.cpaAmounts[probe.upline[PaidPosition(j)].upline_level]

\* C4 witness: the two examples of the claim: upline 456 at level 2 and 789 at level 3
\* with table {level_2: 20, level_3: 5} gives two distributions totaling 25.
C4_Witness ==
    /\ CalculateReturned
    /\ probe.upline = <<[affiliate_id |-> 456, upline_level |-> 2],
                        [affiliate_id |-> 789, upline_level |-> 3]>>
    /\ probe.cpaAmounts = (2 :> 20 @@ 3 :> 5)
    /\ probe.mlmSettings.max_hierarchy_levels >= 3
    /\ Len(probe.result) = 2
    /\ SumAmounts(probe.result) = 25

\* C4, second example: with table {level_2: 0, level_3: 5} exactly one distribution,
\* level 3, amount 5.
C4_WitnessZeroLevel ==
    /\ CalculateReturned
    /\ probe.upline = <<[affiliate_id |-> 456, upline_level |-> 2],
                        [affiliate_id |-> 789, upline_level |-> 3]>>
    /\ probe.cpaAmounts = (2 :> 0 @@ 3 :> 5)
    /\ probe.mlmSettings.max_hierarchy_levels >= 3
    /\ Len(probe.result) = 1
    /\ probe.result[1].affiliate_level = 3
    /\ probe.result[1].amount = 5
    /\ probe.result[1].affiliate_id = 789

(***************************************************************************)
(* Hierarchy: MLMModel.upsertAffiliate, updateAffiliateParent,             *)
(* updateDescendants and getAffiliateUpline.                               *)
(***************************************************************************)
Range(seq) == {seq[i] : i \in 1..Len(seq)}

\* SELECT level, path FROM mlm_hierarchy WHERE affiliate_id = $1 AND active = true
FoundActive(h, id) == id # NullId /\ id \in AffiliateIds /\ h[id].present /\ h[id].active

\* let level = 1; let path = [affiliateId]; if (parentId) { ...parent found... }
LevelAndPath(h, affiliateId, parentId) ==
    IF parentId # NullId /\ FoundActive(h, parentId)
    THEN [level |-> h[parentId].level + 1, path |-> Append(h[parentId].path, affiliateId)]
    ELSE [level |-> 1, path |-> <<affiliateId>>]

\* CONSTRAINT valid_level CHECK (level >= 1 AND level <= 10)
ValidLevel(level) == level >= 1 /\ level <= MaxStoredLevel

\* SELECT ... WHERE $1 = ANY(path) AND affiliate_id != $1 AND active = true
DescendantsOf(h, affiliateId) ==
    {d \in AffiliateIds : /\ h[d].present
                          /\ affiliateId \in Range(h[d].path)
                          /\ d # affiliateId
                          /\ h[d].active}

\* ORDER BY array_length(path, 1): any order of the rows that does not decrease the length
DescendantOrders(h, affiliateId) ==
    LET ds == DescendantsOf(h, affiliateId)
        n == Cardinality(ds)
    IN  {ord \in [1..n -> ds] :
            /\ \A i, j \in 1..n : i # j => ord[i] # ord[j]
            /\ \A i, j \in 1..n : i < j => Len(h[ord[i]].path) <= Len(h[ord[j]].path)}

\* for (const descendant of descendants.rows) { ... UPDATE ... }; ok = FALSE when an
\* UPDATE violates valid_level and throws
RECURSIVE updateDescendantsLoop(_, _, _)
updateDescendantsLoop(h, parentOf, ord) ==
    IF ord = <<>> THEN [ok |-> TRUE, h |-> h]
    ELSE LET d == Head(ord)
             par == parentOf[d]
         IN  IF ~FoundActive(h, par)
             THEN updateDescendantsLoop(h, parentOf, Tail(ord))
             ELSE IF ~ValidLevel(h[par].level + 1)
                  THEN [ok |-> FALSE, h |-> h]
                  ELSE updateDescendantsLoop(
                          [h EXCEPT ![d].level = h[par].level + 1,
                                    ![d].path = Append(h[par].path, d)],
                          parentOf, Tail(ord))

\* updateDescendants(client, affiliateId), the rows read in the order ord
updateDescendants(h, affiliateId, ord) ==
    updateDescendantsLoop(h, [d \in AffiliateIds |-> h[d].parent_id], ord)

\* the row of affiliateId after the UPDATE of updateAffiliateParent
Reparented(h, affiliateId, newParentId) ==
    LET lp == LevelAndPath(h, affiliateId, newParentId)
    IN  [h EXCEPT ![affiliateId].parent_id = newParentId,
                  ![affiliateId].level = lp.level,
                  ![affiliateId].path = lp.path]

\* the new row of INSERT INTO mlm_hierarchy (affiliate_id, parent_id, level, path)
Inserted(h, affiliateId, parentId) ==
    LET lp == LevelAndPath(h, affiliateId, parentId)
    IN  [h EXCEPT ![affiliateId] = [present |-> TRUE, parent_id |-> parentId,
                                    level |-> lp.level, path |-> lp.path, active |-> TRUE]]

\* A plausible slip: the walk goes one level further (upline_level <= $2).
RECURSIVE UplineFromOneMore(_, _, _, _)
UplineFromOneMore(h, id, upline_level, maxLevels) ==
    IF upline_level <= maxLevels /\ FoundActive(h, h[id].parent_id)
    THEN <<[affiliate_id |-> h[id].parent_id, upline_level |-> upline_level + 1]>>
            \o UplineFromOneMore(h, h[id].parent_id, upline_level + 1, maxLevels)
    ELSE <<>>

\* the recursive member of upline_tree: INNER JOIN ... ON h.affiliate_id = ut.parent_id
\* WHERE ut.upline_level < $2 AND h.active = true
RECURSIVE UplineFrom(_, _, _, _)
UplineFrom(h, id, upline_level, maxLevels) ==
    IF upline_level < maxLevels /\ FoundActive(h, h[id].parent_id)
    THEN <<[affiliate_id |-> h[id].parent_id, upline_level |-> upline_level + 1]>>
            \o UplineFrom(h, h[id].parent_id, upline_level + 1, maxLevels)
    ELSE <<>>

\* A plausible slip: the start row is returned too (no WHERE upline_level > 1).
getAffiliateUplineWithSelf(h, affiliateId, maxLevels) ==
    IF FoundActive(h, affiliateId)
    THEN <<[affiliate_id |-> affiliateId, upline_level |-> 1]>>
            \o UplineFrom(h, affiliateId, 1, maxLevels)
    ELSE <<>>

\* MLMModel.getAffiliateUpline: the rows of upline_tree with upline_level > 1, by level
getAffiliateUpline(h, affiliateId, maxLevels) ==
    IF FoundActive(h, affiliateId) THEN UplineFrom(h, affiliateId, 1, maxLevels) ELSE <<>>

InitHierarchy ==
    /\ mlm_hierarchy = EmptyHierarchy
    /\ reparents = 0
    /\ FlowAtRest
    /\ probe = IdleProbe

\* upsertAffiliate(affiliateId, parentId) for an id that has no row: INSERT, COMMIT
\* (ROLLBACK when the INSERT violates valid_level)
UpsertNewAffiliate ==
    \E affiliateId \in AffiliateIds, parentId \in AffiliateIds \cup {NullId} :
        /\ ~mlm_hierarchy[affiliateId].present
        /\ LET after == Inserted(mlm_hierarchy, affiliateId, parentId)
           IN  mlm_hierarchy' = IF ValidLevel(after[affiliateId].level)
                                THEN after ELSE mlm_hierarchy
        /\ probe' = IdleProbe
        /\ UNCHANGED <<reparents, flowVars>>

\* upsertAffiliate(affiliateId, parentId) for an id that has a row with the same parent
UpsertSameParent ==
    \E affiliateId \in AffiliateIds :
        /\ mlm_hierarchy[affiliateId].present
        /\ probe' = IdleProbe
        /\ UNCHANGED <<mlm_hierarchy, reparents, flowVars>>

\* upsertAffiliate(affiliateId, parentId) for an id that has a row with another parent:
\* updateAffiliateParent, updateDescendants, COMMIT (ROLLBACK when an UPDATE throws)
UpsertReparent ==
    \E affiliateId \in AffiliateIds, parentId \in AffiliateIds \cup {NullId} :
        /\ mlm_hierarchy[affiliateId].present
        /\ mlm_hierarchy[affiliateId].parent_id # parentId
        /\ reparents < MaxReparents
        /\ reparents' = reparents + 1
        /\ LET h1 == Reparented(mlm_hierarchy, affiliateId, parentId)
           IN  IF ~ValidLevel(h1[affiliateId].level)
               THEN UNCHANGED mlm_hierarchy
               ELSE \E ord \in DescendantOrders(h1, affiliateId) :
                       LET r == updateDescendants(h1, affiliateId, ord)
                       IN  mlm_hierarchy' = IF r.ok THEN r.h ELSE mlm_hierarchy
        /\ probe' = IdleProbe
        /\ UNCHANGED flowVars

\* a row is deactivated in the store (column active; no operation of the service sets it)
Deactivate ==
    \E affiliateId \in AffiliateIds :
        /\ mlm_hierarchy[affiliateId].present
        /\ mlm_hierarchy[affiliateId].active
        /\ mlm_hierarchy' = [mlm_hierarchy EXCEPT ![affiliateId].active = FALSE]
        /\ probe' = IdleProbe
        /\ UNCHANGED <<reparents, flowVars>>

\* getAffiliateUpline(affiliateId, maxLevels)
GetAffiliateUpline ==
    \E affiliateId \in AffiliateIds, maxLevels \in 1..MaxLevelsArg :
        /\ probe' = [fn |-> "getAffiliateUpline", returned |-> TRUE,
                     affiliateId |-> affiliateId, maxLevels |-> maxLevels,
                     result |-> getAffiliateUpline(mlm_hierarchy, affiliateId, maxLevels)]
        /\ UNCHANGED <<mlm_hierarchy, reparents, flowVars>>

NextHierarchy ==
    \/ UpsertNewAffiliate
    \/ UpsertSameParent
    \/ UpsertReparent
    \/ Deactivate
    \/ GetAffiliateUpline

SpecHierarchy == InitHierarchy /\ [][NextHierarchy]_vars

(***************************************************************************)
(* MLMModel.upsertAffiliate as one call, examined on its own: the call's   *)
(* arguments, the table before it and its outcome are kept in probe.       *)
(***************************************************************************)
\* A plausible slip: no ROLLBACK, so a call that throws after the UPDATE of the node's own
\* row leaves that UPDATE in the table.
upsertAffiliateNoRollback(h, affiliateId, parentId, ord, stmtFails) ==
    IF h[affiliateId].present
    THEN IF h[affiliateId].parent_id = parentId THEN [failed |-> stmtFails, h |-> h]
         ELSE LET h1 == Reparented(h, affiliateId, parentId)
                  r == updateDescendants(h1, affiliateId, ord)
              IN  IF stmtFails \/ ~ValidLevel(h1[affiliateId].level) \/ ~r.ok
                  THEN [failed |-> TRUE, h |-> h1]
                  ELSE [failed |-> FALSE, h |-> r.h]
    ELSE LET h1 == Inserted(h, affiliateId, parentId)
         IN  IF ~stmtFails /\ ValidLevel(h1[affiliateId].level)
             THEN [failed |-> FALSE, h |-> h1]
             ELSE [failed |-> TRUE, h |-> h]

\* A plausible slip: updateAffiliateParent runs for every existing row, also when the
\* parent is the one already stored.
upsertAffiliateAlwaysUpdates(h, affiliateId, parentId, ord, stmtFails) ==
    IF stmtFails THEN [failed |-> TRUE, h |-> h]
    ELSE IF h[affiliateId].present
    THEN LET h1 == Reparented(h, affiliateId, parentId)
         IN  IF ~ValidLevel(h1[affiliateId].level) THEN [failed |-> TRUE, h |-> h]
             ELSE LET r == updateDescendants(h1, affiliateId,
                                CHOOSE o \in DescendantOrders(h1, affiliateId) : TRUE)
                  IN  IF r.ok THEN [failed |-> FALSE, h |-> r.h]
                      ELSE [failed |-> TRUE, h |-> h]
    ELSE LET h1 == Inserted(h, affiliateId, parentId)
         IN  IF ValidLevel(h1[affiliateId].level) THEN [failed |-> FALSE, h |-> h1]
             ELSE [failed |-> TRUE, h |-> h]

\* the table after upsertAffiliate(affiliateId, parentId) and whether the call threw;
\* ord is the order in which updateDescendants reads the descendants, stmtFails tells
\* that a statement of the transaction was rejected by the store.  A throw is followed
\* by ROLLBACK, which restores the table of BEGIN.
upsertAffiliate(h, affiliateId, parentId, ord, stmtFails) ==
    IF stmtFails THEN [failed |-> TRUE, h |-> h]
    ELSE IF h[affiliateId].present
    THEN IF h[affiliateId].parent_id = parentId THEN [failed |-> FALSE, h |-> h]
         ELSE LET h1 == Reparented(h, affiliateId, parentId)
              IN  IF ~ValidLevel(h1[affiliateId].level) THEN [failed |-> TRUE, h |-> h]
                  ELSE LET r == updateDescendants(h1, affiliateId, ord)
                       IN  IF r.ok THEN [failed |-> FALSE, h |-> r.h]
                           ELSE [failed |-> TRUE, h |-> h]
    ELSE LET h1 == Inserted(h, affiliateId, parentId)
         IN  IF ValidLevel(h1[affiliateId].level) THEN [failed |-> FALSE, h |-> h1]
             ELSE [failed |-> TRUE, h |-> h]

\* the orders updateDescendants may read the descendants in during the call
UpsertOrders(h, affiliateId, parentId) ==
    IF h[affiliateId].present /\ h[affiliateId].parent_id # parentId
    THEN DescendantOrders(Reparented(h, affiliateId, parentId), affiliateId)
    ELSE {<<>>}

\* the call changes the parent of an existing row
IsReparent(h, affiliateId, parentId) ==
    h[affiliateId].present /\ h[affiliateId].parent_id # parentId

\* one call upsertAffiliate(affiliateId, parentId).  A behaviour singles out at most one
\* call, its last upsert, and keeps that call's arguments, the table before it and its
\* outcome in probe; the calls before it leave probe idle.
UpsertAffiliate ==
    \E affiliateId \in AffiliateIds, parentId \in AffiliateIds \cup {NullId},
       stmtFails \in BOOLEAN, examined \in BOOLEAN :
        /\ probe = IdleProbe
        /\ IsReparent(mlm_hierarchy, affiliateId, parentId) => reparents < MaxReparents
        /\ \E ord \in UpsertOrders(mlm_hierarchy, affiliateId, parentId) :
              LET r == upsertAffiliate(mlm_hierarchy, affiliateId, parentId, ord, stmtFails)
              IN  /\ mlm_hierarchy' = r.h
                  /\ probe' = IF examined
                              THEN [fn |-> "upsertAffiliate", returned |-> TRUE,
                                    affiliateId |-> affiliateId, parentId |-> parentId,
                                    before |-> mlm_hierarchy, failed |-> r.failed]
                              ELSE IdleProbe
        /\ reparents' = IF IsReparent(mlm_hierarchy, affiliateId, parentId)
                        THEN reparents + 1 ELSE reparents
        /\ UNCHANGED flowVars

NextUpsert ==
    \/ UpsertAffiliate
    \/ Deactivate

SpecUpsert == InitHierarchy /\ [][NextUpsert]_vars

(***************************************************************************)
(* Two upsertAffiliate calls running at the same time, one action per      *)
(* statement.  Each call holds its own pool client and runs BEGIN ...      *)
(* COMMIT at the default isolation level of PostgreSQL, READ COMMITTED: a  *)
(* statement sees the committed table overlaid with the writes of its own  *)
(* transaction, an UPDATE waits while the other transaction holds an       *)
(* uncommitted write of the same row, and COMMIT publishes the writes.     *)
(* mlm_hierarchy is the committed table; probe keeps the two transactions  *)
(* and the table before them.  The table holds a row for every id, so the  *)
(* calls take the branch of an existing row.                               *)
(***************************************************************************)
TxnIds == {1, 2}

\* the tables the calls start on: row 1 a root, rows 2 and 3 inserted below a row or as roots
ConcurrentSeeds ==
    {Inserted(Inserted(Inserted(EmptyHierarchy, 1, NullId), 2, p2), 3, p3) :
        p2 \in {NullId, 1}, p3 \in {NullId, 1, 2}}

IdleTxn == [pc |-> "idle"]

\* what a statement of transaction t sees
TxnView(h, t) == [a \in AffiliateIds |-> IF Has(t.writes, a) THEN t.writes[a] ELSE h[a]]

\* the transaction is between BEGIN and COMMIT / ROLLBACK
InProgress(t) == t.pc \notin {"idle", "done", "failed"}

\* another transaction holds an uncommitted write of row a
LockedByOther(txns, i, a) ==
    \E j \in TxnIds : j # i /\ InProgress(txns[j]) /\ Has(txns[j].writes, a)

\* the loop of updateDescendants moves on to the next descendant, or the call commits
NextDescendant(t) ==
    [t EXCEPT !.pending = Tail(@), !.pc = IF Tail(t.pending) = <<>> THEN "commit"
                                          ELSE "selectDescendantParent"]

\* catch (error) { await client.query('ROLLBACK'); throw error }
RolledBack(t) == [t EXCEPT !.pc = "failed", !.writes = EmptyMap]

InitConcurrent ==
    /\ \E h \in ConcurrentSeeds :
          /\ mlm_hierarchy = h
          /\ probe = [fn |-> "concurrentUpsert", returned |-> FALSE, before |-> h,
                      txns |-> [i \in TxnIds |-> IdleTxn]]
    /\ reparents = 0
    /\ FlowAtRest

\* upsertAffiliate(affiliateId, parentId) is called: pool.connect(), BEGIN
TxnBegin(i) ==
    /\ probe.fn = "concurrentUpsert"
    /\ probe.txns[i].pc = "idle"
    /\ \E affiliateId \in AffiliateIds, parentId \in AffiliateIds \cup {NullId} :
          probe' = [probe EXCEPT !.txns[i] =
                        [pc |-> "selectExisting", affiliateId |-> affiliateId,
                         parentId |-> parentId, writes |-> EmptyMap, level |-> 0,
                         path |-> <<>>, pending |-> <<>>]]
    /\ UNCHANGED <<mlm_hierarchy, reparents, flowVars>>

\* SELECT * FROM mlm_hierarchy WHERE affiliate_id = $1; if (existing.parent_id !== parentId)
TxnSelectExisting(i) ==
    /\ probe.fn = "concurrentUpsert"
    /\ probe.txns[i].pc = "selectExisting"
    /\ LET t == probe.txns[i]
           existing == TxnView(mlm_hierarchy, t)[t.affiliateId]
       IN  probe' = [probe EXCEPT !.txns[i].pc =
                        IF existing.parent_id # t.parentId THEN "selectParent"
                        ELSE "commit"]
    /\ UNCHANGED <<mlm_hierarchy, reparents, flowVars>>

\* updateAffiliateParent: the SELECT of the new parent's level and path
TxnSelectParent(i) ==
    /\ probe.fn = "concurrentUpsert"
    /\ probe.txns[i].pc = "selectParent"
    /\ LET t == probe.txns[i]
           lp == LevelAndPath(TxnView(mlm_hierarchy, t), t.affiliateId, t.parentId)
       IN  probe' = [probe EXCEPT !.txns[i] =
                        [t EXCEPT !.level = lp.level, !.path = lp.path, !.pc = "updateRow"]]
    /\ UNCHANGED <<mlm_hierarchy, reparents, flowVars>>

\* updateAffiliateParent: UPDATE mlm_hierarchy SET parent_id, level, path of the node
TxnUpdateRow(i) ==
    /\ probe.fn = "concurrentUpsert"
    /\ probe.txns[i].pc = "updateRow"
    /\ ~LockedByOther(probe.txns, i, probe.txns[i].affiliateId)
    /\ LET t == probe.txns[i]
           row == TxnView(mlm_hierarchy, t)[t.affiliateId]
       IN  probe' = [probe EXCEPT !.txns[i] =
                        IF ~ValidLevel(t.level) THEN RolledBack(t)
                        ELSE [t EXCEPT !.writes =
                                          Set(@, t.affiliateId,
                                              [row EXCEPT !.parent_id = t.parentId,
                                                          !.level = t.level,
                                                          !.path = t.path]),
                                       !.pc = "selectDescendants"]]
    /\ UNCHANGED <<mlm_hierarchy, reparents, flowVars>>

\* updateDescendants: the SELECT of the descendants, ordered by the length of their path
TxnSelectDescendants(i) ==
    /\ probe.fn = "concurrentUpsert"
    /\ probe.txns[i].pc = "selectDescendants"
    /\ LET t == probe.txns[i]
           view == TxnView(mlm_hierarchy, t)
       IN  \E ord \in DescendantOrders(view, t.affiliateId) :
              probe' = [probe EXCEPT !.txns[i] =
                           [t EXCEPT !.pending =
                                        [k \in 1..Len(ord) |->
                                            [affiliate_id |-> ord[k],
                                             parent_id |-> view[ord[k]].parent_id]],
                                     !.pc = IF ord = <<>> THEN "commit"
                                            ELSE "selectDescendantParent"]]
    /\ UNCHANGED <<mlm_hierarchy, reparents, flowVars>>

\* updateDescendants, loop body: the SELECT of the descendant's parent; the descendant
\* is skipped when no active parent row is found
TxnSelectDescendantParent(i) ==
    /\ probe.fn = "concurrentUpsert"
    /\ probe.txns[i].pc = "selectDescendantParent"
    /\ LET t == probe.txns[i]
           descendant == Head(t.pending)
           view == TxnView(mlm_hierarchy, t)
       IN  probe' = [probe EXCEPT !.txns[i] =
                        IF FoundActive(view, descendant.parent_id)
                        THEN [t EXCEPT !.level = view[descendant.parent_id].level + 1,
                                       !.path = Append(view[descendant.parent_id].path,
                                                       descendant.affiliate_id),
                                       !.pc = "updateDescendant"]
                        ELSE NextDescendant(t)]
    /\ UNCHANGED <<mlm_hierarchy, reparents, flowVars>>

\* updateDescendants, loop body: UPDATE mlm_hierarchy SET level, path of the descendant
TxnUpdateDescendant(i) ==
    /\ probe.fn = "concurrentUpsert"
    /\ probe.txns[i].pc = "updateDescendant"
    /\ ~LockedByOther(probe.txns, i, Head(probe.txns[i].pending).affiliate_id)
    /\ LET t == probe.txns[i]
           d == Head(t.pending).affiliate_id
           row == TxnView(mlm_hierarchy, t)[d]
       IN  probe' = [probe EXCEPT !.txns[i] =
                        IF ~ValidLevel(t.level) THEN RolledBack(t)
                        ELSE NextDescendant(
                                [t EXCEPT !.writes =
                                             Set(@, d, [row EXCEPT !.level = t.level,
                                                                   !.path = t.path])])]
    /\ UNCHANGED <<mlm_hierarchy, reparents, flowVars>>

\* COMMIT: the writes of the transaction become the committed rows
TxnCommit(i) ==
    /\ probe.fn = "concurrentUpsert"
    /\ probe.txns[i].pc = "commit"
    /\ mlm_hierarchy' = TxnView(mlm_hierarchy, probe.txns[i])
    /\ probe' = [probe EXCEPT !.txns[i].pc = "done", !.txns[i].writes = EmptyMap,
                              !.returned = \A j \in TxnIds \ {i} : probe.txns[j].pc = "done"]
    /\ UNCHANGED <<reparents, flowVars>>

\* a statement of the transaction is rejected by the store: ROLLBACK, the call throws
TxnFails(i) ==
    /\ probe.fn = "concurrentUpsert"
    /\ InProgress(probe.txns[i])
    /\ probe' = [probe EXCEPT !.txns[i] = RolledBack(@)]
    /\ UNCHANGED <<mlm_hierarchy, reparents, flowVars>>

NextConcurrent ==
    \E i \in TxnIds :
        \/ TxnBegin(i)
        \/ TxnSelectExisting(i)
        \/ TxnSelectParent(i)
        \/ TxnUpdateRow(i)
        \/ TxnSelectDescendants(i)
        \/ TxnSelectDescendantParent(i)
        \/ TxnUpdateDescendant(i)
        \/ TxnCommit(i)
        \/ TxnFails(i)

SpecConcurrent == InitConcurrent /\ [][NextConcurrent]_vars

(***************************************************************************)
(* Claims about getAffiliateUpline.                                        *)
(***************************************************************************)
UplineReturned == probe.fn = "getAffiliateUpline" /\ probe.returned

\* the k-th ancestor of p following parent pointers, whatever the active flags are
\* (NullId when the chain ends before: at a root, or at a parent_id that has no row)
RECURSIVE Ancestor(_, _, _)
Ancestor(h, p, k) ==
    IF k = 0 THEN p
    ELSE LET a == Ancestor(h, p, k - 1)
         IN  IF a = NullId \/ ~h[a].present THEN NullId ELSE h[a].parent_id

HasRow(h, a) == a # NullId /\ h[a].present

\* the first k ancestors of p all have a row and are active
ChainActive(h, p, k) == \A j \in 1..k : FoundActive(h, Ancestor(h, p, j))

\* the number of leading ancestors of p that have a row and are active, counted up to cap
ActiveChainLen(h, p, cap) ==
    CHOOSE k \in 0..cap :
        /\ ChainActive(h, p, k)
        /\ \A m \in (k + 1)..cap : ~ChainActive(h, p, m)

\* no row is reachable from itself by parent pointers
Forest(h) ==
    \A a \in AffiliateIds :
        h[a].present => \A k \in 1..Cardinality(AffiliateIds) : Ancestor(h, a, k) # a

\* C8 (as claimed), on hierarchies that are forests and for an active p:
\* getAffiliateUpline resolves through inactive ancestors: an inactive ancestor is left
\* out of the result, but every active ancestor above it within the level limit is
\* still returned.
C8_ResolvesThroughInactive ==
    (/\ UplineReturned
     /\ Forest(mlm_hierarchy)
     /\ FoundActive(mlm_hierarchy, probe.affiliateId)) =>
        /\ \A i \in 1..Len(probe.result) : mlm_hierarchy[probe.result[i].affiliate_id].active
        /\ \A k \in 1..(probe.maxLevels - 1) :
              FoundActive(mlm_hierarchy, Ancestor(mlm_hierarchy, probe.affiliateId, k))
                  => \E i \in 1..Len(probe.result) :
                        probe.result[i].affiliate_id
                            = Ancestor(mlm_hierarchy, probe.affiliateId, k)

\* C9 (as claimed): the upline returned for p never contains p itself, is ordered by
\* strictly increasing level starting at 2, and (when all ancestors are active) the
\* entry at level k is the (k-1)-th ancestor of p, so level 2 is the immediate parent.
C9_UplineShape ==
    UplineReturned =>
        /\ \A i \in 1..Len(probe.result) : probe.result[i].affiliate_id # probe.affiliateId
        /\ \A i \in 1..Len(probe.result) : probe.result[i].upline_level = i + 1
        /\ (\A k \in 1..probe.maxLevels :
                HasRow(mlm_hierarchy, Ancestor(mlm_hierarchy, probe.affiliateId, k))
                    => mlm_hierarchy[Ancestor(mlm_hierarchy, probe.affiliateId, k)].active)
            => \A i \in 1..Len(probe.result) :
                  probe.result[i].affiliate_id
                      = Ancestor(mlm_hierarchy, probe.affiliateId, i)

\* C10 (as claimed), on hierarchies that are forests: when p has at least N active
\* ancestors getAffiliateUpline(p, N) returns exactly N entries, otherwise all of them.
C10_ReturnsNEntries ==
    (/\ UplineReturned
     /\ Forest(mlm_hierarchy)
     /\ FoundActive(mlm_hierarchy, probe.affiliateId)) =>
        LET n == ActiveChainLen(mlm_hierarchy, probe.affiliateId, probe.maxLevels)
        IN  Len(probe.result) = IF n >= probe.maxLevels THEN probe.maxLevels ELSE n

\* C10 (amended): getAffiliateUpline(p, N) walks upward from p's parent and stops when
\* upline_level reaches N, that is after N-1 hops, or earlier at the first ancestor
\* that is a root's missing parent, has no row or is inactive: for an active p it
\* returns exactly the first min(N-1, number of leading active ancestors) ancestors, at
\* levels 2, 3, ...; for a p without an active row it returns nothing. The result never
\* has more than N-1 entries, in every stored hierarchy, cyclic ones included.
C10_ReturnsUpToNMinus1 ==
    UplineReturned =>
        /\ Len(probe.result)
              = IF FoundActive(mlm_hierarchy, probe.affiliateId)
                THEN ActiveChainLen(mlm_hierarchy, probe.affiliateId, probe.maxLevels - 1)
                ELSE 0
        /\ Len(probe.result) <= probe.maxLevels - 1
        /\ \A i \in 1..Len(probe.result) :
              /\ probe.result[i].affiliate_id
                    = Ancestor(mlm_hierarchy, probe.affiliateId, i)
              /\ probe.result[i].upline_level = i + 1

\* C10 witness: in a forest, p has two active ancestors and getAffiliateUpline(p, 2)
\* has returned exactly one entry, the parent.
C10_Witness ==
    /\ UplineReturned
    /\ Forest(mlm_hierarchy)
    /\ FoundActive(mlm_hierarchy, probe.affiliateId)
    /\ ActiveChainLen(mlm_hierarchy, probe.affiliateId, 2) = 2
    /\ probe.maxLevels = 2
    /\ Len(probe.result) = 1
    /\ probe.result[1].affiliate_id = mlm_hierarchy[probe.affiliateId].parent_id

\* C9 restricted to forests: the shape claimed for the upline holds wherever no row is
\* its own ancestor.
C9_UplineShapeInForest == (UplineReturned /\ Forest(mlm_hierarchy)) => C9_UplineShape

(***************************************************************************)
(* Configuration access: MLMService.getConfig over ConfigClient.getConfig. *)
(***************************************************************************)
\* getFromCache(key) !== null: an entry that is present, not expired and not null
CacheHit(cc, key) == Has(cc, key) /\ cc[key].fresh /\ cc[key].value.present

\* getFromCache deletes an entry whose ttl has passed
AfterGetFromCache(cc, key) ==
    IF Has(cc, key) /\ ~cc[key].fresh THEN Delete(cc, key) ELSE cc

\* ConfigClient.getConfig(key, null); answered tells whether the provider answered the
\* request with success.  Result: the value returned and the client cache afterwards.
ClientGetConfig(cc, prov, key, answered) ==
    IF CacheHit(cc, key) THEN [value |-> cc[key].value, clientCache |-> cc]
    ELSE LET cc1 == AfterGetFromCache(cc, key)
         IN  CASE key = "cpa_level_amounts" ->
                    [value |-> IF answered THEN prov[key] ELSE FallbackCpaLevelAmounts,
                     clientCache |-> cc1]
               [] key = "cpa_validation_rules" ->
                    [value |-> IF answered THEN prov[key] ELSE FallbackCpaValidationRules,
                     clientCache |-> cc1]
               [] OTHER ->
                    IF answered
                    THEN [value |-> prov[key],
                          clientCache |-> Set(cc1, key, [value |-> prov[key], fresh |-> TRUE])]
                    ELSE [value |-> NullValue(key), clientCache |-> cc1]

\* MLMService.getConfig(key): the service cache first, else the client, whose answer is kept
ServiceGetConfig(sc, cc, prov, key, answered) ==
    IF Has(sc, key) THEN [value |-> sc[key], configCache |-> sc, clientCache |-> cc]
    ELSE LET r == ClientGetConfig(cc, prov, key, answered)
         IN  [value |-> r.value, configCache |-> Set(sc, key, r.value),
              clientCache |-> r.clientCache]

(***************************************************************************)
(* MLMService.getConfig examined on its own: calls for a key with a        *)
(* default, the request to the provider in flight between the call and its *)
(* return, values changing at the provider, push notifications             *)
(* (handleConfigChange and the callbacks of setupConfigSubscriptions) and  *)
(* the passing of the cache ttl.  The entries of the caches are kept per   *)
(* key, so a behaviour follows one key: probe keeps the key, the requests  *)
(* and pushes in flight and what the last call returned.                   *)
(***************************************************************************)
MaxVersions == 2        \* values the provider holds for a key, one after the other
MaxGets == 2            \* getConfig calls in one behaviour
MaxPulls == 2           \* requests to the provider in flight at a time

\* the v-th value the provider holds for a key
ConfigVersion(key, v) ==
    CASE key = "cpa_level_amounts" ->
            [present |-> TRUE, amounts |-> (1 :> 50 @@ 2 :> 20 + v @@ 3 :> 5)]
      [] key = "mlm_settings" ->
            [present |-> TRUE, max_hierarchy_levels |-> 5, minimum_amount |-> v,
             currency |-> "BRL"]
      [] OTHER ->
            [present |-> TRUE, hasGroups |-> TRUE, group_operator |-> "AND",
             groups |-> <<[operator |-> "AND", hasCriteria |-> TRUE,
                           criteria |-> <<[type |-> "deposit", value |-> v,
                                           enabled |-> TRUE]>>]>>]

\* which of the provider's values a value is; 0 for a value the provider never held
VersionOf(key, value) ==
    IF \E v \in 1..MaxVersions : ConfigVersion(key, v) = value
    THEN CHOOSE v \in 1..MaxVersions : ConfigVersion(key, v) = value
    ELSE 0

\* a default a caller supplies instead of null (getMlmSettings passes one for mlm_settings)
SuppliedDefault(key) ==
    CASE key = "cpa_level_amounts" -> [present |-> TRUE, amounts |-> (1 :> 50)]
      [] key = "mlm_settings" ->
            [present |-> TRUE, max_hierarchy_levels |-> 5, minimum_amount |-> 0,
             currency |-> "BRL"]
      [] OTHER -> [present |-> TRUE, hasGroups |-> TRUE, groups |-> <<>>,
                   group_operator |-> "AND"]
Defaults(key) == {NullValue(key), SuppliedDefault(key)}

\* how the provider answers a request: response.data.success true or false, status 404,
\* or any other rejection (network error, timeout)
Responses == {"success", "unsuccessful", "notFound", "error"}

\* A plausible slip: like getConfigFull, the catch block returns the default for a 404
\* only and rethrows every other error.
FetchedRethrowing(key, defaultValue, response, held) ==
    IF response = "error" THEN [threw |-> TRUE, value |-> defaultValue, cached |-> FALSE]
    ELSE IF response = "success"
    THEN [threw |-> FALSE, value |-> held, cached |-> key \notin {"cpa_level_amounts",
                                                                 "cpa_validation_rules"}]
    ELSE [threw |-> FALSE, value |-> defaultValue, cached |-> FALSE]

\* ConfigClient.getConfig(key, defaultValue) after a cache miss, when the provider held the
\* value held and answered with response: whether it throws, the value it returns and
\* whether addToCache stored it
Fetched(key, defaultValue, response, held) ==
    CASE key = "cpa_level_amounts" ->
            [threw |-> FALSE, cached |-> FALSE,
             value |-> IF response = "success" THEN held ELSE FallbackCpaLevelAmounts]
      [] key = "cpa_validation_rules" ->
            [threw |-> FALSE, cached |-> FALSE,
             value |-> IF response = "success" THEN held ELSE FallbackCpaValidationRules]
      [] OTHER ->
            IF response = "success" THEN [threw |-> FALSE, cached |-> TRUE, value |-> held]
            ELSE [threw |-> FALSE, cached |-> FALSE, value |-> defaultValue]

\* the sequence without its i-th element
RemoveAt(seq, i) == [j \in 1..(Len(seq) - 1) |-> IF j < i THEN seq[j] ELSE seq[j + 1]]

InitConfig ==
    /\ \E key \in ConfigKeys :
          probe = [fn |-> "getConfig", returned |-> FALSE, key |-> key, gets |-> 0,
                   pulls |-> <<>>, pushes |-> <<>>, old |-> {}, pushed |-> EmptyMap]
    /\ mlm_hierarchy = EmptyHierarchy
    /\ reparents = 0
    /\ provider = [key \in ConfigKeys |-> ConfigVersion(key, 1)]
    /\ clientCache = EmptyMap
    /\ configCache = EmptyMap
    /\ cpa_validados = {}
    /\ cpa_distributions = {}
    /\ mlm_statistics = EmptyStatistics
    /\ mlm_operation_logs = <<>>
    /\ call = NoCall
    /\ calls = 0

\* the version of the value the newest push stored for the key, 0 before any push
PushedVersion(key) == IF Has(probe.pushed, key) THEN probe.pushed[key] ELSE 0

\* what a getConfig call returned, with what is known of it: whether the ttl had passed
\* since the value was stored, and what a push had stored when the call was made
ReturnOf(key, defaultValue, value, source, threw, pushedBefore) ==
    [key |-> key, defaultValue |-> defaultValue, value |-> value, source |-> source,
     threw |-> threw, old |-> key \in probe.old, pushedBefore |-> pushedBefore]

\* MLMService.getConfig(key, defaultValue) is called: it returns from configCache, or from
\* the cache of ConfigClient, or the request to the provider is sent
ServiceGetConfigCall ==
    /\ probe.fn = "getConfig"
    /\ probe.gets < MaxGets
    /\ \E key \in {probe.key} :
       \E defaultValue \in Defaults(key) :
          IF Has(configCache, key)
          THEN /\ probe' = [fn |-> "getConfig", returned |-> TRUE, key |-> probe.key,
                            gets |-> probe.gets + 1,
                            pulls |-> probe.pulls, pushes |-> probe.pushes,
                            old |-> probe.old, pushed |-> probe.pushed,
                            last |-> ReturnOf(key, defaultValue, configCache[key],
                                              "configCache", FALSE, PushedVersion(key))]
               /\ UNCHANGED <<clientCache, configCache>>
          ELSE IF CacheHit(clientCache, key)
          THEN /\ probe' = [fn |-> "getConfig", returned |-> TRUE, key |-> probe.key,
                            gets |-> probe.gets + 1,
                            pulls |-> probe.pulls, pushes |-> probe.pushes,
                            old |-> probe.old \ {key}, pushed |-> probe.pushed,
                            last |-> ReturnOf(key, defaultValue, clientCache[key].value,
                                              "clientCache", FALSE, PushedVersion(key))]
               /\ configCache' = Set(configCache, key, clientCache[key].value)
               /\ UNCHANGED clientCache
          ELSE /\ Len(probe.pulls) < MaxPulls
               /\ \E response \in Responses :
                     probe' = [probe EXCEPT
                                  !.gets = @ + 1,
                                  !.pulls = Append(@, [key |-> key,
                                                       defaultValue |-> defaultValue,
                                                       response |-> response,
                                                       held |-> provider[key],
                                                       pushedBefore |->
                                                           PushedVersion(key)])]
               /\ clientCache' = AfterGetFromCache(clientCache, key)
               /\ UNCHANGED configCache
    /\ UNCHANGED <<hierVars, provider, storeVars, call, calls>>

\* the answer to a request arrives: ConfigClient.getConfig returns and MLMService.getConfig
\* stores what it returned in configCache
ConfigResponse ==
    /\ probe.fn = "getConfig"
    /\ \E i \in 1..Len(probe.pulls) :
          LET pull == probe.pulls[i]
              f == Fetched(pull.key, pull.defaultValue, pull.response, pull.held)
          IN  /\ clientCache' = IF f.cached
                                THEN Set(clientCache, pull.key,
                                         [value |-> f.value, fresh |-> TRUE])
                                ELSE clientCache
              /\ configCache' = IF f.threw THEN configCache
                                ELSE Set(configCache, pull.key, f.value)
              /\ probe' = [fn |-> "getConfig", returned |-> TRUE, key |-> probe.key,
                            gets |-> probe.gets,
                           pulls |-> RemoveAt(probe.pulls, i), pushes |-> probe.pushes,
                           old |-> IF f.threw THEN probe.old ELSE probe.old \ {pull.key},
                           pushed |-> probe.pushed,
                           last |-> ReturnOf(pull.key, pull.defaultValue, f.value,
                                             IF pull.response = "success" THEN "provider"
                                             ELSE "failure", f.threw,
                                             pull.pushedBefore)]
    /\ UNCHANGED <<hierVars, provider, storeVars, call, calls>>

\* the value of a key changes at the provider, which pushes config_changed over the
\* WebSocket when the client is connected
ProviderChange ==
    /\ probe.fn = "getConfig"
    /\ \E key \in {probe.key}, notified \in BOOLEAN :
          /\ VersionOf(key, provider[key]) < MaxVersions
          /\ LET value == ConfigVersion(key, VersionOf(key, provider[key]) + 1)
             IN  /\ provider' = [provider EXCEPT ![key] = value]
                 /\ probe' = [probe EXCEPT
                                 !.pushes = IF notified
                                            THEN Append(@, [key |-> key, value |-> value])
                                            ELSE @]
    /\ UNCHANGED <<hierVars, clientCache, configCache, storeVars, call, calls>>

\* a config_changed message arrives: handleConfigChange stores the value in the cache of
\* ConfigClient and the subscribed callback stores it in configCache
HandleConfigChange ==
    /\ probe.fn = "getConfig"
    /\ probe.pushes # <<>>
    /\ LET message == Head(probe.pushes)
       IN  /\ clientCache' = Set(clientCache, message.key,
                                 [value |-> message.value, fresh |-> TRUE])
           /\ configCache' = Set(configCache, message.key, message.value)
           /\ probe' = [probe EXCEPT
                           !.pushes = Tail(@),
                           !.old = @ \ {message.key},
                           !.pushed = Set(@, message.key,
                                          VersionOf(message.key, message.value))]
    /\ UNCHANGED <<hierVars, provider, storeVars, call, calls>>

\* Date.now() passes the ttl (defaultCacheTTL, 5 minutes) of everything stored so far
TtlPasses ==
    /\ probe.fn = "getConfig"
    /\ \/ \E k \in DOMAIN clientCache : clientCache[k].fresh
       \/ DOMAIN configCache \ probe.old # {}
    /\ clientCache' = [k \in DOMAIN clientCache |-> [clientCache[k] EXCEPT !.fresh = FALSE]]
    /\ probe' = [probe EXCEPT !.old = DOMAIN configCache]
    /\ UNCHANGED <<hierVars, provider, configCache, storeVars, call, calls>>

NextConfig ==
    \/ ServiceGetConfigCall
    \/ ConfigResponse
    \/ ProviderChange
    \/ HandleConfigChange
    \/ TtlPasses

SpecConfig == InitConfig /\ [][NextConfig]_vars

(***************************************************************************)
(* The WebSocket of ConfigClient: connectWebSocket and its open and close  *)
(* handlers, scheduleReconnect, subscribe, unsubscribe and close.  probe   *)
(* keeps the fields of the client (ws, wsReconnectAttempts,                *)
(* wsMaxReconnectAttempts, changeCallbacks, the pending reconnect timer),  *)
(* the keys the provider has a subscription for on the current connection, *)
(* and what has happened so far: the connection attempts made since the    *)
(* last open, the keys subscribed while the socket was not open, whether a *)
(* connection with subscriptions was lost, whether close() was called and  *)
(* what the client did after it.  getConfig goes over HTTP and does not    *)
(* look at the socket.  A key holds at most one callback here.             *)
(***************************************************************************)
DefaultMaxReconnectAttempts == 10

\* options.wsMaxReconnectAttempts: 0 stands for an option that is not given
ReconnectOptions == {0, 1, 2}

\* this.ws: no socket yet, or the readyState of the newest socket
ReadyStates == {"none", "connecting", "open", "closing", "closed"}

\* A plausible slip: the cap is not checked, every close schedules a reconnect.
scheduleReconnectUncapped(client) ==
    [client EXCEPT !.wsReconnectAttempts = @ + 1, !.timer = TRUE,
                   !.afterClose = IF client.closeCalled THEN @ \cup {"scheduled"} ELSE @]

\* scheduleReconnect(): below the cap the counter is incremented and setTimeout is armed
scheduleReconnect(client) ==
    IF client.wsReconnectAttempts < client.wsMaxReconnectAttempts
    THEN [client EXCEPT !.wsReconnectAttempts = @ + 1, !.timer = TRUE,
                        !.afterClose = IF client.closeCalled THEN @ \cup {"scheduled"}
                                       ELSE @]
    ELSE client

\* A plausible slip: the open handler only resets the counter and subscribes to nothing.
KeysToSubscribeNone(changeCallbacks) == {}

\* open handler: Array.from(this.changeCallbacks.keys()), sent in one subscribe message
KeysToSubscribe(changeCallbacks) == changeCallbacks

\* connectWebSocket(): new WebSocket(this.wsURL) throws for a malformed URL, which the
\* catch block answers with scheduleReconnect(); otherwise the handlers are registered
connectWebSocket(client) ==
    IF client.urlValid
    THEN [client EXCEPT !.ws = "connecting", !.sinceOpen = @ + 1,
                        !.afterClose = IF client.closeCalled THEN @ \cup {"connected"}
                                       ELSE @]
    ELSE scheduleReconnect([client EXCEPT !.sinceOpen = @ + 1])

\* the client as its constructor leaves it
NewClient(option, urlValid) ==
    connectWebSocket(
        [fn |-> "socket", returned |-> FALSE, ws |-> "none", urlValid |-> urlValid,
         wsReconnectAttempts |-> 0,
         wsMaxReconnectAttempts |-> IF option = 0 THEN DefaultMaxReconnectAttempts
                                    ELSE option,
         timer |-> FALSE, changeCallbacks |-> {}, subscribed |-> {}, sinceOpen |-> -1,
         late |-> {}, lost |-> FALSE, closeCalled |-> FALSE, afterClose |-> {},
         answeredAtCap |-> FALSE])

InitSocket ==
    /\ \E option \in ReconnectOptions, urlValid \in BOOLEAN :
          probe = NewClient(option, urlValid)
    /\ mlm_hierarchy = EmptyHierarchy
    /\ reparents = 0
    /\ provider = [key \in ConfigKeys |-> ConfigVersion(key, 1)]
    /\ clientCache = EmptyMap
    /\ configCache = EmptyMap
    /\ cpa_validados = {}
    /\ cpa_distributions = {}
    /\ mlm_statistics = EmptyStatistics
    /\ mlm_operation_logs = <<>>
    /\ call = NoCall
    /\ calls = 0

\* the 'open' event: the counter is reset and the keys with callbacks are subscribed
WsOpen ==
    /\ probe.fn = "socket"
    /\ probe.ws = "connecting"
    /\ probe' = [probe EXCEPT !.ws = "open", !.wsReconnectAttempts = 0, !.sinceOpen = 0,
                              !.subscribed = KeysToSubscribe(probe.changeCallbacks),
                              !.returned = TRUE]
    /\ UNCHANGED <<hierVars, flowVars>>

\* the 'close' event of a socket that never opened, of an open socket whose transport is
\* lost, or of a socket close() was called on: the handler calls scheduleReconnect()
WsClose ==
    /\ probe.fn = "socket"
    /\ probe.ws \in {"connecting", "open", "closing"}
    /\ probe' = scheduleReconnect(
                    [probe EXCEPT !.ws = "closed", !.subscribed = {},
                                  !.lost = @ \/ (probe.ws = "open" /\ probe.subscribed # {})])
    /\ UNCHANGED <<hierVars, flowVars>>

\* the timer armed by scheduleReconnect fires: connectWebSocket()
ReconnectTimer ==
    /\ probe.fn = "socket"
    /\ probe.timer
    /\ probe' = connectWebSocket([probe EXCEPT !.timer = FALSE])
    /\ UNCHANGED <<hierVars, flowVars>>

\* subscribe(configKey, callback): the callback is registered, and the subscribe message
\* is sent only when the socket is open
Subscribe ==
    /\ probe.fn = "socket"
    /\ \E configKey \in ConfigKeys \ probe.changeCallbacks :
          probe' = [probe EXCEPT !.changeCallbacks = @ \cup {configKey},
                                 !.subscribed = IF probe.ws = "open" THEN @ \cup {configKey}
                                                ELSE @,
                                 !.late = IF probe.ws = "open" THEN @ ELSE @ \cup {configKey}]
    /\ UNCHANGED <<hierVars, flowVars>>

\* unsubscribe(configKey, callback) of the last callback of a key
Unsubscribe ==
    /\ probe.fn = "socket"
    /\ \E configKey \in probe.changeCallbacks :
          probe' = [probe EXCEPT !.changeCallbacks = @ \ {configKey},
                                 !.subscribed = IF probe.ws = "open" THEN @ \ {configKey}
                                                ELSE @,
                                 !.late = @ \ {configKey}]
    /\ UNCHANGED <<hierVars, flowVars>>

\* close(): if (this.ws) this.ws.close(); the 'close' event of the socket follows
Close ==
    /\ probe.fn = "socket"
    /\ ~probe.closeCalled
    /\ probe' = [probe EXCEPT !.closeCalled = TRUE,
                              !.ws = IF @ \in {"connecting", "open"} THEN "closing" ELSE @]
    /\ UNCHANGED <<hierVars, flowVars>>

\* a config_changed message for a subscribed key arrives on the open socket:
\* handleConfigChange stores the value
ConfigChanged ==
    /\ probe.fn = "socket"
    /\ probe.ws = "open"
    /\ \E key \in probe.subscribed :
          /\ ~CacheHit(clientCache, key)
          /\ clientCache' = Set(clientCache, key, [value |-> provider[key], fresh |-> TRUE])
    /\ UNCHANGED <<probe, hierVars, provider, configCache, storeVars, call, calls>>

\* getConfig(key) of the client, over HTTP
ClientGetConfigCall ==
    /\ probe.fn = "socket"
    /\ \E key \in ConfigKeys, answered \in BOOLEAN :
          LET r == ClientGetConfig(clientCache, provider, key, answered)
          IN  /\ clientCache' = r.clientCache
              /\ probe' = [probe EXCEPT
                              !.answeredAtCap =
                                  @ \/ (/\ probe.wsReconnectAttempts
                                            = probe.wsMaxReconnectAttempts
                                        /\ probe.ws \in {"closed", "none"}
                                        /\ ~probe.timer)]
    /\ UNCHANGED <<hierVars, provider, configCache, storeVars, call, calls>>

NextSocket ==
    \/ WsOpen
    \/ WsClose
    \/ ReconnectTimer
    \/ Subscribe
    \/ Unsubscribe
    \/ Close
    \/ ConfigChanged
    \/ ClientGetConfigCall

SpecSocket == InitSocket /\ [][NextSocket]_vars

(***************************************************************************)
(* The store operations of MLMModel the flow uses.  Every operation takes  *)
(* its own pool client and runs one statement, committed on its own.       *)
(***************************************************************************)
\* how one store operation ends: done, pool.connect() rejected, or the statement rejected
DbOutcomes == {"ok", "connect", "query"}

\* the row INSERT INTO cpa_validados ... RETURNING * yields; id stands for the generated UUID
CpaValidadoRow(c) ==
    [id |-> c.id, user_id |-> c.userId, affiliate_id |-> c.affiliateId,
     affiliate_level |-> 1, cpa_amount |-> c.cpaData.amount, status |-> "PENDING"]

\* the values executeCpaDistribution hands to saveCpaDistribution
CpaDistributionRow(cpaValidadoId, distribution) ==
    [cpa_validado_id |-> cpaValidadoId, user_id |-> NullId,
     affiliate_id |-> distribution.affiliate_id,
     affiliate_level |-> distribution.affiliate_level,
     original_amount |-> distribution.amount,
     distributed_amount |-> distribution.amount, status |-> "COMPLETED"]

\* cpa_distributions.user_id INTEGER NOT NULL, and the error of an INSERT that violates it
NotNullViolation == "null value in column user_id violates not-null constraint"
RowAccepted(row) == row.user_id # NullId

\* A plausible slip: ON CONFLICT adds the new values to the stored ones
\* (x = mlm_statistics.x + EXCLUDED.x).
updateAffiliateStatisticsAdding(ms, affiliateId, stats) ==
    IF affiliateId \in DOMAIN ms
    THEN [ms EXCEPT ![affiliateId] =
            [total_cpas |-> @.total_cpas + stats.total_cpas,
             total_amount |-> @.total_amount + stats.total_amount,
             level_cpas |-> [l \in StatLevels |-> @.level_cpas[l] + stats.level_cpas[l]],
             level_amount |-> [l \in StatLevels |->
                                  @.level_amount[l] + stats.level_amount[l]]]]
    ELSE (affiliateId :> [total_cpas |-> stats.total_cpas,
                          total_amount |-> stats.total_amount,
                          level_cpas |-> stats.level_cpas,
                          level_amount |-> stats.level_amount]) @@ ms

\* INSERT ... ON CONFLICT (affiliate_id, period_start, period_end) DO UPDATE SET x = EXCLUDED.x
updateAffiliateStatistics(ms, affiliateId, stats) ==
    Set(ms, affiliateId, [total_cpas |-> stats.total_cpas,
                          total_amount |-> stats.total_amount,
                          level_cpas |-> stats.level_cpas,
                          level_amount |-> stats.level_amount])

\* the row logOperation inserts into mlm_operation_logs
LogRow(entityId, status, errorMessage) ==
    [entity_id |-> entityId, status |-> status, error_message |-> errorMessage]

(***************************************************************************)
(* MLMService.updateStatistics: the grouping of the distributions.         *)
(***************************************************************************)
\* the keys of affiliateStats in insertion order
RECURSIVE StatsKeys(_, _)
StatsKeys(distributions, seen) ==
    IF distributions = <<>> THEN <<>>
    ELSE LET a == Head(distributions).affiliate_id
         IN  IF a \in seen THEN StatsKeys(Tail(distributions), seen)
             ELSE <<a>> \o StatsKeys(Tail(distributions), seen \cup {a})

\* stats.total_cpas += 1 / stats.total_amount += amount over the distributions of affiliateId
RECURSIVE TotalOf(_, _)
TotalOf(distributions, affiliateId) ==
    IF distributions = <<>> THEN [cpas |-> 0, amount |-> 0]
    ELSE LET d == Head(distributions)
             rest == TotalOf(Tail(distributions), affiliateId)
         IN  IF d.affiliate_id = affiliateId
             THEN [cpas |-> rest.cpas + 1, amount |-> rest.amount + d.amount]
             ELSE rest

\* stats[`level_<l>_cpas`] += 1 / stats[`level_<l>_amount`] += amount
RECURSIVE LevelOf(_, _, _)
LevelOf(distributions, affiliateId, level) ==
    IF distributions = <<>> THEN [cpas |-> 0, amount |-> 0]
    ELSE LET d == Head(distributions)
             rest == LevelOf(Tail(distributions), affiliateId, level)
         IN  IF d.affiliate_id = affiliateId /\ d.affiliate_level = level
             THEN [cpas |-> rest.cpas + 1, amount |-> rest.amount + d.amount]
             ELSE rest

\* the entry of affiliateStats for affiliateId
StatsFor(distributions, affiliateId) ==
    [total_cpas |-> TotalOf(distributions, affiliateId).cpas,
     total_amount |-> TotalOf(distributions, affiliateId).amount,
     level_cpas |-> [l \in StatLevels |-> LevelOf(distributions, affiliateId, l).cpas],
     level_amount |-> [l \in StatLevels |-> LevelOf(distributions, affiliateId, l).amount]]

\* for (const distribution of distributions) { ... }: the Map as a list of its entries
affiliateStats(distributions) ==
    LET keys == StatsKeys(distributions, {})
    IN  [i \in 1..Len(keys) |->
            [affiliate_id |-> keys[i], stats |-> StatsFor(distributions, keys[i])]]

(***************************************************************************)
(* MLMService.updateStatistics examined on its own: calls with batches of  *)
(* distributions, interleaved at their awaits.  probe.runs keeps, for each *)
(* call, its batch, the upserts it still has to make and how it ended.     *)
(***************************************************************************)
MaxRuns == 2            \* updateStatistics calls in one behaviour

\* the distributions of the batches: a payee at level 2 (20) or level 3 (5)
BatchPayees == {1, 2}
BatchEntries ==
    {[affiliate_id |-> a, affiliate_level |-> 2, amount |-> 20, currency |-> "BRL"] :
        a \in BatchPayees}
    \cup {[affiliate_id |-> a, affiliate_level |-> 3, amount |-> 5, currency |-> "BRL"] :
            a \in BatchPayees}
BatchLengths == {0, 1, 2}
Batches == UNION {[1..n -> BatchEntries] : n \in BatchLengths}

\* a run has ended: nothing is left to upsert
RunOver(run) == run.pending = <<>>

InitStatistics ==
    /\ probe = [fn |-> "updateStatistics", returned |-> FALSE, runs |-> <<>>]
    /\ mlm_hierarchy = EmptyHierarchy
    /\ reparents = 0
    /\ FlowAtRest

\* updateStatistics(distributions) is entered: the batch is grouped by affiliate
StartUpdateStatistics ==
    /\ probe.fn = "updateStatistics"
    /\ Len(probe.runs) < MaxRuns
    /\ \E batch \in Batches :
          LET overlaps == \E i \in 1..Len(probe.runs) : ~RunOver(probe.runs[i])
              run == [batch |-> batch, pending |-> affiliateStats(batch), failed |-> FALSE,
                      overlapped |-> overlaps, after |-> mlm_statistics]
              others == [i \in 1..Len(probe.runs) |->
                            IF RunOver(probe.runs[i]) THEN probe.runs[i]
                            ELSE [probe.runs[i] EXCEPT !.overlapped = TRUE]]
          IN  probe' = [probe EXCEPT !.runs = Append(others, run)]
    /\ UNCHANGED <<hierVars, flowVars>>

\* one await this.mlmModel.updateAffiliateStatistics(...) of a run; an error ends the
\* run (catch block of updateStatistics, nothing propagated)
UpsertStatistics ==
    /\ probe.fn = "updateStatistics"
    /\ \E i \in 1..Len(probe.runs), outcome \in DbOutcomes :
          /\ ~RunOver(probe.runs[i])
          /\ LET entry == Head(probe.runs[i].pending)
                 ms == IF outcome = "ok"
                       THEN updateAffiliateStatistics(mlm_statistics, entry.affiliate_id,
                                                      entry.stats)
                       ELSE mlm_statistics
             IN  /\ mlm_statistics' = ms
                 /\ probe' = [probe EXCEPT
                                 !.returned = TRUE,
                                 !.runs[i] = [@ EXCEPT
                                     !.pending = IF outcome = "ok" THEN Tail(@) ELSE <<>>,
                                     !.failed = outcome # "ok",
                                     !.after = ms]]
    /\ UNCHANGED <<hierVars, configVars, cpa_validados, cpa_distributions,
                   mlm_operation_logs, call, calls>>

NextStatistics ==
    \/ StartUpdateStatistics
    \/ UpsertStatistics

SpecStatistics == InitStatistics /\ [][NextStatistics]_vars

(***************************************************************************)
(* MLMService.processCpaForDistribution, one action per await.             *)
(***************************************************************************)
MaxCalls == 2           \* processCpaForDistribution calls in one behaviour

\* the hierarchy the flow runs on: the chain 1 <- 2 <- 3 built by three upserts
SeedHierarchy ==
    Inserted(Inserted(Inserted(EmptyHierarchy, 1, NullId), 2, 1), 3, 2)

\* what the provider may hold
ProviderCpaLevelAmounts == {[present |-> TRUE, amounts |-> (1 :> 50 @@ 2 :> 20 @@ 3 :> 5)]}
MinimumAmounts == {1, 10, 100}
ProviderMlmSettings ==
    [present : {TRUE}, max_hierarchy_levels : {5}, minimum_amount : MinimumAmounts,
     currency : {"BRL"}]
DepositRules ==
    [present |-> TRUE, hasGroups |-> TRUE, group_operator |-> "AND",
     groups |-> <<[operator |-> "AND", hasCriteria |-> TRUE,
                   criteria |-> <<[type |-> "deposit", value |-> 1, enabled |-> TRUE]>>]>>]
ProviderCpaValidationRules == {FallbackCpaValidationRules, DepositRules}

\* the requests processCpaForDistribution is called with
UserIds == {123}
FlowCpaDatas ==
    [amount : {100}, depositAmount : MeasuredValues, betsCount : {0},
     totalBetAmount : {0}, daysActive : {0}]

InvalidCpa == "CPA nao atende aos criterios de validacao"

\* throw inside the try block by a step other than the audit write: control passes to
\* the catch block
Throw(c, message) == [c EXCEPT !.pc = "catch", !.error = message, !.primaryError = message]

\* pool.connect() of logOperation rejects inside the try block
ThrowFromAudit(c, message) ==
    [c EXCEPT !.pc = "catch", !.error = message, !.auditFailed = message]

\* the message of a failed store operation
DbError(outcome) == IF outcome = "connect" THEN "connect" ELSE "query"

\* A plausible slip: the validation result is logged but the flow goes on.
ValidationGateIgnored(c, isValid) ==
    [c EXCEPT !.isValid = isValid, !.pc = "getAffiliateUpline"]

\* if (!isValid) { throw new Error(...) }
ValidationGate(c, isValid) ==
    IF isValid THEN [c EXCEPT !.isValid = isValid, !.pc = "getAffiliateUpline"]
    ELSE Throw([c EXCEPT !.isValid = isValid], InvalidCpa)

\* A plausible slip: the audit entry is written before the statistics are updated.
AfterDistributionsAuditFirst(c) ==
    [c EXCEPT !.affiliateStats = affiliateStats(c.distributions), !.pc = "logOperation"]

\* the distribution loop is over: updateStatistics groups the distributions and awaits
\* its first upsert, or, with nothing to upsert, logOperation is awaited
AfterDistributions(c) ==
    LET grouped == affiliateStats(c.distributions)
    IN  [c EXCEPT !.affiliateStats = grouped,
                  !.pc = IF grouped = <<>> THEN "logOperation" ELSE "updateStatistics"]

\* distributionResults.reduce((sum, d) => sum + d.distributed_amount, 0)
RECURSIVE SumDistributed(_)
SumDistributed(results) ==
    IF results = <<>> THEN 0
    ELSE Head(results).row.distributed_amount + SumDistributed(Tail(results))

\* return { cpaValidado, distributions, totalDistributed }: reading distributed_amount of a
\* null result throws a TypeError inside the try block
Returned(c) ==
    IF \E i \in 1..Len(c.distributionResults) : c.distributionResults[i].returned = "null"
    THEN Throw(c, "TypeError")
    ELSE [c EXCEPT !.pc = "done", !.outcome = "success",
                   !.totalDistributed = SumDistributed(c.distributionResults)]

\* the locals of a processCpaForDistribution(userId, affiliateId, cpaData) call at its
\* entry, with the tables as they are before the call
NewCall(userId, affiliateId, cpaData) ==
    [pc |-> "cpa_level_amounts", id |-> calls + 1, userId |-> userId,
     affiliateId |-> affiliateId, cpaData |-> cpaData,
     cpaAmounts |-> NullValue("cpa_level_amounts"),
     mlmSettings |-> NullValue("mlm_settings"),
     validationRules |-> NullValue("cpa_validation_rules"),
     isValid |-> FALSE, upline |-> <<>>, distributions |-> <<>>,
     cpaValidadoId |-> 0, next |-> 1, distributionResults |-> <<>>,
     affiliateStats |-> <<>>, error |-> "", outcome |-> "", thrown |-> "",
     totalDistributed |-> 0, statsFailed |-> FALSE, auditFailed |-> "",
     primaryError |-> "",
     before |-> [cpa_validados |-> cpa_validados,
                 cpa_distributions |-> cpa_distributions,
                 mlm_statistics |-> mlm_statistics]]

Init ==
    /\ probe = IdleProbe
    /\ mlm_hierarchy = SeedHierarchy
    /\ reparents = 0
    /\ \E t \in ProviderCpaLevelAmounts, st \in ProviderMlmSettings,
          rs \in ProviderCpaValidationRules :
            provider = [cpa_level_amounts |-> t, mlm_settings |-> st,
                        cpa_validation_rules |-> rs]
    /\ clientCache = EmptyMap
    /\ configCache = EmptyMap
    /\ cpa_validados = {}
    /\ cpa_distributions = {}
    /\ mlm_statistics = EmptyStatistics
    /\ mlm_operation_logs = <<>>
    /\ call = NoCall
    /\ calls = 0

\* processCpaForDistribution(userId, affiliateId, cpaData) is entered
ProcessCpaForDistribution ==
    /\ call.pc \in {"idle", "done"}
    /\ calls < MaxCalls
    /\ \E userId \in UserIds, affiliateId \in AffiliateIds, cpaData \in FlowCpaDatas :
          call' = NewCall(userId, affiliateId, cpaData)
    /\ calls' = calls + 1
    /\ UNCHANGED <<probe, hierVars, configVars, storeVars>>

\* the call after await this.getConfig(key) has yielded value: the local is assigned and
\* the next await is reached
AfterGetConfig(c, key, value) ==
    CASE key = "cpa_level_amounts" -> [c EXCEPT !.cpaAmounts = value, !.pc = "mlm_settings"]
      [] key = "mlm_settings" ->
            [c EXCEPT !.mlmSettings = value, !.pc = "cpa_validation_rules"]
      [] OTHER -> [c EXCEPT !.validationRules = value, !.pc = "validateCpa"]

\* await this.getConfig(key) for the three keys in turn
GetConfig ==
    \E key \in ConfigKeys, answered \in BOOLEAN :
        /\ call.pc = key
        /\ LET r == ServiceGetConfig(configCache, clientCache, provider, key, answered)
           IN  /\ configCache' = r.configCache
               /\ clientCache' = r.clientCache
               /\ call' = AfterGetConfig(call, key, r.value)
        /\ UNCHANGED <<probe, hierVars, provider, storeVars, calls>>

\* const isValid = await this.validateCpa(userId, cpaData, validationRules)
ValidateCpaStep ==
    /\ call.pc = "validateCpa"
    /\ call' = ValidationGate(call, validateCpa(call.validationRules, call.cpaData))
    /\ UNCHANGED <<probe, hierVars, configVars, storeVars, calls>>

\* await this.mlmModel.getAffiliateUpline(affiliateId, mlmSettings.max_hierarchy_levels),
\* then calculateDistributions; reading a property of null settings throws
ResolveUpline ==
    /\ call.pc = "getAffiliateUpline"
    /\ \E outcome \in DbOutcomes :
          call' = IF ~call.mlmSettings.present THEN Throw(call, "TypeError")
                  ELSE IF outcome # "ok" THEN Throw(call, DbError(outcome))
                  ELSE LET upline == getAffiliateUpline(mlm_hierarchy, call.affiliateId,
                                            call.mlmSettings.max_hierarchy_levels)
                       IN  IF upline # <<>> /\ ~call.cpaAmounts.present
                           THEN Throw(call, "TypeError")
                           ELSE
                           [call EXCEPT !.upline = upline,
                                        !.distributions =
                                            calculateDistributions(upline,
                                                call.cpaAmounts.amounts, call.mlmSettings),
                                        !.pc = "saveCpaValidado"]
    /\ UNCHANGED <<probe, hierVars, configVars, storeVars, calls>>

\* await this.mlmModel.saveCpaValidado({...})
SaveCpaValidado ==
    /\ call.pc = "saveCpaValidado"
    /\ \E outcome \in DbOutcomes :
          IF outcome = "ok"
          THEN /\ cpa_validados' = cpa_validados \cup {CpaValidadoRow(call)}
               /\ call' = LET c == [call EXCEPT !.cpaValidadoId = call.id,
                                                !.pc = "executeCpaDistribution"]
                          IN  IF c.distributions = <<>> THEN AfterDistributions(c) ELSE c
          ELSE /\ call' = Throw(call, DbError(outcome))
               /\ UNCHANGED cpa_validados
    /\ UNCHANGED <<probe, hierVars, configVars, cpa_distributions, mlm_statistics,
                   mlm_operation_logs, calls>>

\* one iteration of the loop: await this.executeCpaDistribution(cpaValidado.id, distribution)
ExecuteCpaDistribution ==
    /\ call.pc = "executeCpaDistribution"
    /\ \E answered \in BOOLEAN, outcome \in DbOutcomes :
          LET distribution == call.distributions[call.next]
              r == ServiceGetConfig(configCache, clientCache, provider, "mlm_settings", answered)
              row == CpaDistributionRow(call.cpaValidadoId, distribution)
              pushed(result) ==
                  LET c == [call EXCEPT !.distributionResults = Append(@, result),
                                        !.next = @ + 1]
                  IN  IF c.next > Len(c.distributions) THEN AfterDistributions(c) ELSE c
          IN  /\ configCache' = r.configCache
              /\ clientCache' = r.clientCache
              /\ IF ~r.value.present
                 THEN /\ call' = Throw(call, "TypeError")
                      /\ UNCHANGED cpa_distributions
                 ELSE IF distribution.amount < r.value.minimum_amount
                 THEN /\ call' = pushed([returned |-> "null"])
                      /\ UNCHANGED cpa_distributions
                 ELSE IF outcome = "ok" /\ RowAccepted(row)
                 THEN /\ cpa_distributions' = cpa_distributions \cup {row}
                      /\ call' = pushed([returned |-> "row", row |-> row])
                 ELSE /\ call' = Throw(call, IF outcome = "ok" THEN NotNullViolation
                                              ELSE DbError(outcome))
                      /\ UNCHANGED cpa_distributions
    /\ UNCHANGED <<probe, hierVars, provider, cpa_validados, mlm_statistics,
                   mlm_operation_logs, calls>>

\* one iteration of the loop of updateStatistics: await updateAffiliateStatistics(...);
\* an error ends the loop and is not propagated
UpdateStatistics ==
    /\ call.pc = "updateStatistics"
    /\ \E outcome \in DbOutcomes :
          LET entry == Head(call.affiliateStats)
              rest == Tail(call.affiliateStats)
          IN  IF outcome = "ok"
              THEN /\ mlm_statistics' = updateAffiliateStatistics(mlm_statistics,
                                            entry.affiliate_id, entry.stats)
                   /\ call' = [call EXCEPT !.affiliateStats = rest,
                                           !.pc = IF rest = <<>> THEN "logOperation"
                                                  ELSE "updateStatistics"]
              ELSE /\ call' = [call EXCEPT !.pc = "logOperation", !.statsFailed = TRUE]
                   /\ UNCHANGED mlm_statistics
    /\ UNCHANGED <<probe, hierVars, configVars, cpa_validados, cpa_distributions,
                   mlm_operation_logs, calls>>

\* await this.mlmModel.logOperation(..., 'SUCCESS', ...), then the return statement.
\* logOperation swallows an error of its INSERT; pool.connect() is outside its try.
LogSuccess ==
    /\ call.pc = "logOperation"
    /\ \E outcome \in DbOutcomes :
          CASE outcome = "ok" ->
                  /\ mlm_operation_logs' = Append(mlm_operation_logs,
                                                LogRow(<<call.cpaValidadoId>>, "SUCCESS", ""))
                  /\ call' = Returned(call)
            [] outcome = "query" ->
                  /\ call' = Returned([call EXCEPT !.auditFailed = DbError(outcome)])
                  /\ UNCHANGED mlm_operation_logs
            [] OTHER ->
                  /\ call' = ThrowFromAudit(call, DbError(outcome))
                  /\ UNCHANGED mlm_operation_logs
    /\ UNCHANGED <<probe, hierVars, configVars, cpa_validados, cpa_distributions,
                   mlm_statistics, calls>>

\* catch (error) { await this.mlmModel.logOperation(..., 'ERROR', error.message, ...);
\* throw error }
Catch ==
    /\ call.pc = "catch"
    /\ \E outcome \in DbOutcomes :
          CASE outcome = "ok" ->
                  /\ mlm_operation_logs' =
                        Append(mlm_operation_logs,
                               LogRow(<<call.userId, call.affiliateId>>, "ERROR", call.error))
                  /\ call' = [call EXCEPT !.pc = "done", !.outcome = "error",
                                          !.thrown = call.error]
            [] outcome = "query" ->
                  /\ call' = [call EXCEPT !.pc = "done", !.outcome = "error",
                                          !.thrown = call.error,
                                          !.auditFailed = DbError(outcome)]
                  /\ UNCHANGED mlm_operation_logs
            [] OTHER ->
                  /\ call' = [call EXCEPT !.pc = "done", !.outcome = "error",
                                          !.thrown = DbError(outcome),
                                          !.auditFailed = DbError(outcome)]
                  /\ UNCHANGED mlm_operation_logs
    /\ UNCHANGED <<probe, hierVars, configVars, cpa_validados, cpa_distributions,
                   mlm_statistics, calls>>

\* Date.now() passes the ttl of the entries of ConfigClient.cacheTTL
CacheExpires ==
    /\ \E k \in DOMAIN clientCache : clientCache[k].fresh
    /\ clientCache' = [k \in DOMAIN clientCache |-> [clientCache[k] EXCEPT !.fresh = FALSE]]
    /\ UNCHANGED <<probe, hierVars, provider, configCache, storeVars, call, calls>>

Next ==
    \/ ProcessCpaForDistribution
    \/ GetConfig
    \/ ValidateCpaStep
    \/ ResolveUpline
    \/ SaveCpaValidado
    \/ ExecuteCpaDistribution
    \/ UpdateStatistics
    \/ LogSuccess
    \/ Catch
    \/ CacheExpires

Spec == Init /\ [][Next]_vars

(***************************************************************************)
(* processCpaForDistribution while the provider replaces mlm_settings: the *)
(* actions of the flow, and the config_changed message for mlm_settings    *)
(* arriving between two awaits of a call (handleConfigChange and the       *)
(* callback of setupConfigSubscriptions).  probe counts the messages.      *)
(***************************************************************************)
MaxPushes == 1          \* config_changed messages in one behaviour

InitPush ==
    /\ probe = [fn |-> "configChanged", returned |-> FALSE, pushes |-> 0]
    /\ mlm_hierarchy = SeedHierarchy
    /\ reparents = 0
    /\ \E t \in ProviderCpaLevelAmounts, st \in ProviderMlmSettings,
          rs \in ProviderCpaValidationRules :
            provider = [cpa_level_amounts |-> t, mlm_settings |-> st,
                        cpa_validation_rules |-> rs]
    /\ clientCache = EmptyMap
    /\ configCache = EmptyMap
    /\ cpa_validados = {}
    /\ cpa_distributions = {}
    /\ mlm_statistics = EmptyStatistics
    /\ mlm_operation_logs = <<>>
    /\ call = NoCall
    /\ calls = 0

\* mlm_settings changes at the provider and the config_changed message is handled:
\* addToCache(key, newValue), then the callback runs configCache.set('mlm_settings', ...)
MlmSettingsChanged ==
    /\ probe.fn = "configChanged"
    /\ probe.pushes < MaxPushes
    /\ \E newSettings \in ProviderMlmSettings \ {provider.mlm_settings} :
          /\ provider' = [provider EXCEPT !.mlm_settings = newSettings]
          /\ clientCache' = Set(clientCache, "mlm_settings",
                                [value |-> newSettings, fresh |-> TRUE])
          /\ configCache' = Set(configCache, "mlm_settings", newSettings)
    /\ probe' = [probe EXCEPT !.pushes = @ + 1, !.returned = TRUE]
    /\ UNCHANGED <<hierVars, storeVars, call, calls>>

NextPush ==
    \/ ProcessCpaForDistribution
    \/ GetConfig
    \/ ValidateCpaStep
    \/ ResolveUpline
    \/ SaveCpaValidado
    \/ ExecuteCpaDistribution
    \/ UpdateStatistics
    \/ LogSuccess
    \/ Catch
    \/ MlmSettingsChanged

SpecPush == InitPush /\ [][NextPush]_vars

(***************************************************************************)
(* processCpaForDistribution with requests that are never answered.  The   *)
(* request of ConfigClient goes through axios.create({timeout:             *)
(* this.timeout}) (30000 ms unless configured), so an unanswered request   *)
(* is rejected when the timer fires and getConfig goes on with its         *)
(* fallback.  The pool of MLMModel is created with connectionString, ssl,  *)
(* min and max only: no connectionTimeoutMillis, statement_timeout or      *)
(* query_timeout, and no call site sets a timer, so nothing ends the wait  *)
(* for pool.connect() or client.query() that gets no answer.  probe keeps  *)
(* the await the call is suspended at.                                     *)
(***************************************************************************)
\* the awaits of the call that go to the store
StoreAwaits == {"getAffiliateUpline", "saveCpaValidado", "executeCpaDistribution",
                "updateStatistics", "logOperation", "catch"}

InitAwait ==
    /\ probe = [fn |-> "await", returned |-> FALSE, at |-> ""]
    /\ mlm_hierarchy = SeedHierarchy
    /\ reparents = 0
    /\ \E t \in ProviderCpaLevelAmounts, st \in ProviderMlmSettings,
          rs \in ProviderCpaValidationRules :
            provider = [cpa_level_amounts |-> t, mlm_settings |-> st,
                        cpa_validation_rules |-> rs]
    /\ clientCache = EmptyMap
    /\ configCache = EmptyMap
    /\ cpa_validados = {}
    /\ cpa_distributions = {}
    /\ mlm_statistics = EmptyStatistics
    /\ mlm_operation_logs = <<>>
    /\ call = NoCall
    /\ calls = 0

\* getConfig(key) has sent its request (nothing cached) and the provider does not answer
ConfigRequestUnanswered ==
    /\ probe.fn = "await"
    /\ call.pc \in ConfigKeys
    /\ ~Has(configCache, call.pc)
    /\ ~CacheHit(clientCache, call.pc)
    /\ probe' = [probe EXCEPT !.at = call.pc]
    /\ call' = [call EXCEPT !.pc = "awaitingConfig"]
    /\ UNCHANGED <<hierVars, configVars, storeVars, calls>>

\* the timeout of the http client fires: the request is rejected and getConfig returns
\* as for any failed request
AxiosTimeout ==
    /\ probe.fn = "await"
    /\ call.pc = "awaitingConfig"
    /\ LET key == probe.at
           r == ServiceGetConfig(configCache, clientCache, provider, key, FALSE)
       IN  /\ configCache' = r.configCache
           /\ clientCache' = r.clientCache
           /\ call' = AfterGetConfig(call, key, r.value)
    /\ probe' = [probe EXCEPT !.at = "", !.returned = TRUE]
    /\ UNCHANGED <<hierVars, provider, storeVars, calls>>

\* a store operation of the call (pool.connect() or client.query()) gets no answer: the
\* await is never resumed
StoreRequestUnanswered ==
    /\ probe.fn = "await"
    /\ call.pc \in StoreAwaits
    /\ probe' = [probe EXCEPT !.at = call.pc]
    /\ call' = [call EXCEPT !.pc = "awaitingStore"]
    /\ UNCHANGED <<hierVars, configVars, storeVars, calls>>

NextAwait ==
    \/ ProcessCpaForDistribution
    \/ GetConfig
    \/ ValidateCpaStep
    \/ ResolveUpline
    \/ SaveCpaValidado
    \/ ExecuteCpaDistribution
    \/ UpdateStatistics
    \/ LogSuccess
    \/ Catch
    \/ ConfigRequestUnanswered
    \/ AxiosTimeout
    \/ StoreRequestUnanswered

\* the event loop resumes a call whose await has been settled
SpecAwait == InitAwait /\ [][NextAwait]_vars /\ WF_vars(NextAwait)

(***************************************************************************)
(* MLMModel.saveCpaValidado and saveCpaDistribution examined on their own, *)
(* called with the data a caller hands them: what the schema of the two    *)
(* tables accepts.                                                         *)
(***************************************************************************)
MaxSaves == 3           \* save calls in one behaviour

\* Date.now() at the moment executeCpaDistribution builds a transaction id
Clock == {1, 2}

\* the distributions handed to saveCpaDistribution: a payee at level 2 with amount 20
SavedDistributions ==
    {[affiliate_id |-> a, affiliate_level |-> 2, amount |-> 20, currency |-> "BRL"] :
        a \in {1, 2}}

\* cpa_validado_id UUID NOT NULL REFERENCES cpa_validados(id)
References(validados, cpaValidadoId) == \E v \in validados : v.id = cpaValidadoId

\* the row INSERT INTO cpa_distributions ... RETURNING * yields for the data of a caller:
\* id stands for the generated UUID, transaction_id for `CPA_${id}_${affiliate}_${now}`
SavedDistributionRow(id, cpaValidadoId, userId, distribution, now) ==
    [id |-> id, cpa_validado_id |-> cpaValidadoId, user_id |-> userId,
     affiliate_id |-> distribution.affiliate_id,
     affiliate_level |-> distribution.affiliate_level,
     original_amount |-> distribution.amount,
     distributed_amount |-> distribution.amount, status |-> "COMPLETED",
     transaction_id |-> <<cpaValidadoId, distribution.affiliate_id, now>>]

InitStore ==
    /\ probe = [fn |-> "saveCpaDistribution", returned |-> FALSE, saves |-> 0]
    /\ mlm_hierarchy = EmptyHierarchy
    /\ reparents = 0
    /\ FlowAtRest

\* saveCpaValidado(cpaData): one INSERT INTO cpa_validados
SaveCpaValidadoCall ==
    /\ probe.fn = "saveCpaDistribution"
    /\ probe.saves < MaxSaves
    /\ \E userId \in UserIds, affiliateId \in AffiliateIds, outcome \in DbOutcomes :
          /\ cpa_validados' =
                IF outcome = "ok"
                THEN cpa_validados \cup
                        {CpaValidadoRow([id |-> probe.saves + 1, userId |-> userId,
                                         affiliateId |-> affiliateId,
                                         cpaData |-> [amount |-> 50]])}
                ELSE cpa_validados
          /\ probe' = [probe EXCEPT !.saves = @ + 1]
    /\ UNCHANGED <<hierVars, configVars, cpa_distributions, mlm_statistics,
                   mlm_operation_logs, call, calls>>

\* saveCpaDistribution(distributionData): one INSERT INTO cpa_distributions, rejected
\* when user_id is null or cpa_validado_id references no row
SaveCpaDistributionCall ==
    /\ probe.fn = "saveCpaDistribution"
    /\ probe.saves < MaxSaves
    /\ \E cpaValidadoId \in 1..MaxSaves, userId \in UserIds \cup {NullId},
          distribution \in SavedDistributions, now \in Clock, outcome \in DbOutcomes :
          LET row == SavedDistributionRow(probe.saves + 1, cpaValidadoId, userId,
                                          distribution, now)
              accepted == /\ outcome = "ok"
                          /\ RowAccepted(row)
                          /\ References(cpa_validados, cpaValidadoId)
          IN  /\ cpa_distributions' = IF accepted THEN cpa_distributions \cup {row}
                                      ELSE cpa_distributions
              /\ probe' = [probe EXCEPT !.saves = @ + 1, !.returned = @ \/ accepted]
    /\ UNCHANGED <<hierVars, configVars, cpa_validados, mlm_statistics,
                   mlm_operation_logs, call, calls>>

NextStore ==
    \/ SaveCpaValidadoCall
    \/ SaveCpaDistributionCall

SpecStore == InitStore /\ [][NextStore]_vars

(***************************************************************************)
(* CpaProcessingJob.processPendingCpas: the batch trigger.  It reads       *)
(* system_settings, fetches the pending source records and runs            *)
(* processSingleCpa on each, which calls processCpaForDistribution (the    *)
(* actions above) and then markCpaAsProcessed.  probe keeps the locals of  *)
(* the job.  fetchPendingCpasFromOperationDB stands for the query on the   *)
(* operation database that the source gives in its body (users with        *)
(* cpa_processed = false, oldest first).  The ttl of ConfigClient plays no *)
(* part here: the service asks the client for a key once and keeps the     *)
(* answer in configCache.                                                  *)
(***************************************************************************)
MaxPending == 2         \* rows fetchPendingCpasFromOperationDB returns

SystemSettings == [present |-> TRUE, batch_size |-> 100]

\* the i-th pending row: user i (users are distinct rows, ordered by created_at)
PendingAffiliates == {1, 2}
PendingCpaRows(i) ==
    [user_id : {i}, affiliate_id : PendingAffiliates, deposit_amount : MeasuredValues,
     bets_count : {0}, total_bet_amount : {0}, days_active : {0}]
PendingLists ==
    UNION {{list \in [1..n -> UNION {PendingCpaRows(i) : i \in 1..n}] :
                \A i \in 1..n : list[i] \in PendingCpaRows(i)} : n \in 0..MaxPending}

\* const cpaData = { amount: 50.00, depositAmount: cpa.deposit_amount, ... }
CpaDataOf(cpa) ==
    [amount |-> 50, depositAmount |-> cpa.deposit_amount, betsCount |-> cpa.bets_count,
     totalBetAmount |-> cpa.total_bet_amount, daysActive |-> cpa.days_active]

\* A plausible slip: no try/catch around processSingleCpa in the loop, so the first item
\* that throws ends the loop (the outer catch logs the error).
AfterProcessSingleCpaStoppingAtError(job, cpa, outcome) ==
    IF outcome = "success"
    THEN [job EXCEPT !.marked = @ \cup {cpa.user_id}, !.processed = @ + 1,
                     !.outcomes = Append(@, outcome), !.next = @ + 1,
                     !.pc = IF job.next + 1 > Len(job.pendingCpas) THEN "over" ELSE "loop"]
    ELSE [job EXCEPT !.outcomes = Append(@, outcome), !.next = @ + 1, !.pc = "over"]

\* A plausible slip: markCpaAsProcessed is called in a finally block, whatever
\* processCpaForDistribution did.
AfterProcessSingleCpaMarkingAlways(job, cpa, outcome) ==
    [job EXCEPT !.marked = @ \cup {cpa.user_id},
                !.processed = IF outcome = "success" THEN @ + 1 ELSE @,
                !.errors = IF outcome = "success" THEN @ ELSE @ + 1,
                !.outcomes = Append(@, outcome), !.next = @ + 1,
                !.pc = IF job.next + 1 > Len(job.pendingCpas) THEN "over" ELSE "loop"]

\* the job after processCpaForDistribution of processSingleCpa(cpa) has returned
\* (markCpaAsProcessed(cpa.user_id), processed++) or thrown (rethrown by processSingleCpa,
\* caught in the loop: errors++), and the loop goes on to the next item
AfterProcessSingleCpa(job, cpa, outcome) ==
    [job EXCEPT !.marked = IF outcome = "success" THEN @ \cup {cpa.user_id} ELSE @,
                !.processed = IF outcome = "success" THEN @ + 1 ELSE @,
                !.errors = IF outcome = "success" THEN @ ELSE @ + 1,
                !.outcomes = Append(@, outcome), !.next = @ + 1,
                !.pc = IF job.next + 1 > Len(job.pendingCpas) THEN "over" ELSE "loop"]

InitJob ==
    /\ probe = [fn |-> "processPendingCpas", returned |-> FALSE, pc |-> "idle",
                pendingCpas |-> <<>>, next |-> 1, processed |-> 0, errors |-> 0,
                attempted |-> <<>>, outcomes |-> <<>>, marked |-> {}, aborted |-> FALSE]
    /\ mlm_hierarchy = SeedHierarchy
    /\ reparents = 0
    /\ \E t \in ProviderCpaLevelAmounts, st \in ProviderMlmSettings,
          rs \in ProviderCpaValidationRules :
            provider = [cpa_level_amounts |-> t, mlm_settings |-> st,
                        cpa_validation_rules |-> rs, system_settings |-> SystemSettings]
    /\ clientCache = EmptyMap
    /\ configCache = EmptyMap
    /\ cpa_validados = {}
    /\ cpa_distributions = {}
    /\ mlm_statistics = EmptyStatistics
    /\ mlm_operation_logs = <<>>
    /\ call = NoCall
    /\ calls = 0

\* processPendingCpas up to its loop: getConfig('system_settings'), whose null makes
\* systemSettings.batch_size throw into the outer catch, then the fetch of the list
ProcessPendingCpas ==
    /\ probe.fn = "processPendingCpas"
    /\ probe.pc = "idle"
    /\ \E answered \in BOOLEAN, list \in PendingLists :
          LET r == ServiceGetConfig(configCache, clientCache, provider, "system_settings",
                                    answered)
          IN  /\ configCache' = r.configCache
              /\ clientCache' = r.clientCache
              /\ probe' = IF ~r.value.present
                          THEN [probe EXCEPT !.pc = "over", !.aborted = TRUE,
                                             !.returned = TRUE]
                          ELSE [probe EXCEPT !.pendingCpas = list,
                                             !.pc = IF list = <<>> THEN "over" ELSE "loop",
                                             !.returned = list = <<>>]
    /\ UNCHANGED <<hierVars, provider, storeVars, call, calls>>

\* processSingleCpa(cpa) for the next item of the list: processCpaForDistribution is
\* entered with the item's user, affiliate and cpaData
ProcessSingleCpa ==
    /\ probe.fn = "processPendingCpas"
    /\ probe.pc = "loop"
    /\ LET cpa == probe.pendingCpas[probe.next]
       IN  /\ call' = NewCall(cpa.user_id, cpa.affiliate_id, CpaDataOf(cpa))
           /\ probe' = [probe EXCEPT !.pc = "processing",
                                     !.attempted = Append(@, cpa.user_id)]
    /\ calls' = calls + 1
    /\ UNCHANGED <<hierVars, configVars, storeVars>>

\* processCpaForDistribution has returned or thrown to processSingleCpa
ProcessSingleCpaReturns ==
    /\ probe.fn = "processPendingCpas"
    /\ probe.pc = "processing"
    /\ call.pc = "done"
    /\ LET job == AfterProcessSingleCpa(probe, probe.pendingCpas[probe.next], call.outcome)
       IN  probe' = [job EXCEPT !.returned = job.pc = "over"]
    /\ UNCHANGED <<hierVars, flowVars>>

NextJob ==
    \/ ProcessPendingCpas
    \/ ProcessSingleCpa
    \/ ProcessSingleCpaReturns
    \/ GetConfig
    \/ ValidateCpaStep
    \/ ResolveUpline
    \/ SaveCpaValidado
    \/ ExecuteCpaDistribution
    \/ UpdateStatistics
    \/ LogSuccess
    \/ Catch

SpecJob == InitJob /\ [][NextJob]_vars

(***************************************************************************)
(* The triggers of CpaProcessingJob: the cron callback registered by       *)
(* start() and runManual(), both of which test isRunning and then call     *)
(* processPendingCpas, which sets isRunning before its first await and     *)
(* clears it in its finally block.  A run is suspended at its awaits       *)
(* (getConfig, fetchPendingCpasFromOperationDB, processSingleCpa of each   *)
(* item), where further triggers can arrive.  What processSingleCpa does   *)
(* to the tables is the subject of SpecJob; here it returns or throws.     *)
(* probe keeps isRunning, the runs in progress and what the triggers and   *)
(* runs have done so far.                                                  *)
(***************************************************************************)
MaxTriggers == 5        \* cron ticks and runManual calls in one behaviour

\* processPendingCpas() up to its first await: this.isRunning = true
StartProcessPendingCpas(job, by) ==
    [job EXCEPT !.isRunning = TRUE,
                !.runs = Append(@, [by |-> by, pc |-> "getConfig", remaining |-> 0])]

\* A plausible slip: the cron callback starts a run without looking at isRunning.
cronCallbackUnguarded(job) == StartProcessPendingCpas(job, "cron")

\* the callback of cron.schedule: a tick during a run is skipped
cronCallback(job) ==
    IF job.isRunning THEN [job EXCEPT !.skipped = TRUE]
    ELSE StartProcessPendingCpas(job, "cron")

\* runManual(): throws 'Job ja esta executando' during a run
runManual(job) ==
    IF job.isRunning THEN [job EXCEPT !.rejected = TRUE]
    ELSE StartProcessPendingCpas(job, "manual")

\* the i-th run in progress ends (early return, end of the loop, or the outer catch):
\* finally { this.isRunning = false }
RunEnds(job, i, how) ==
    [job EXCEPT !.isRunning = FALSE, !.runs = RemoveAt(@, i), !.ended = @ \cup {how},
                !.returned = TRUE]

InitSchedule ==
    /\ probe = [fn |-> "schedule", returned |-> FALSE, isRunning |-> FALSE, runs |-> <<>>,
                triggers |-> 0, skipped |-> FALSE, rejected |-> FALSE, ended |-> {}]
    /\ mlm_hierarchy = EmptyHierarchy
    /\ reparents = 0
    /\ FlowAtRest

\* a cron tick
CronTick ==
    /\ probe.fn = "schedule"
    /\ probe.triggers < MaxTriggers
    /\ probe' = cronCallback([probe EXCEPT !.triggers = @ + 1])
    /\ UNCHANGED <<hierVars, flowVars>>

\* runManual() is called
RunManual ==
    /\ probe.fn = "schedule"
    /\ probe.triggers < MaxTriggers
    /\ probe' = runManual([probe EXCEPT !.triggers = @ + 1])
    /\ UNCHANGED <<hierVars, flowVars>>

\* await this.mlmService.getConfig('system_settings') is resumed; systemSettings.batch_size
\* of a null value throws into the outer catch
RunGetsConfig ==
    /\ probe.fn = "schedule"
    /\ \E i \in 1..Len(probe.runs), present \in BOOLEAN :
          /\ probe.runs[i].pc = "getConfig"
          /\ probe' = IF present THEN [probe EXCEPT !.runs[i].pc = "fetch"]
                      ELSE RunEnds(probe, i, "failed")
    /\ UNCHANGED <<hierVars, flowVars>>

\* await this.fetchPendingCpasFromOperationDB(batchSize) is resumed with n rows, or throws
RunFetches ==
    /\ probe.fn = "schedule"
    /\ \E i \in 1..Len(probe.runs), n \in 0..MaxPending, outcome \in {"rows", "error"} :
          /\ probe.runs[i].pc = "fetch"
          /\ probe' = IF outcome = "error" THEN RunEnds(probe, i, "failed")
                      ELSE IF n = 0 THEN RunEnds(probe, i, "empty")
                      ELSE [probe EXCEPT !.runs[i].pc = "loop", !.runs[i].remaining = n]
    /\ UNCHANGED <<hierVars, flowVars>>

\* await this.processSingleCpa(cpa) of the next item is resumed, returning or throwing
\* into the catch of the loop
RunProcessesItem ==
    /\ probe.fn = "schedule"
    /\ \E i \in 1..Len(probe.runs), outcome \in {"success", "error"} :
          /\ probe.runs[i].pc = "loop"
          /\ probe' = IF probe.runs[i].remaining = 1 THEN RunEnds(probe, i, "completed")
                      ELSE [probe EXCEPT !.runs[i].remaining = @ - 1]
    /\ UNCHANGED <<hierVars, flowVars>>

NextSchedule ==
    \/ CronTick
    \/ RunManual
    \/ RunGetsConfig
    \/ RunFetches
    \/ RunProcessesItem

SpecSchedule == InitSchedule /\ [][NextSchedule]_vars

(***************************************************************************)
(* Claims about the distribution flow.                                     *)
(***************************************************************************)
\* the call has returned or thrown to its caller
CallOver == call.pc = "done"

\* the call is past its validation step
Validated ==
    call.pc \notin {"idle", "cpa_level_amounts", "mlm_settings", "cpa_validation_rules",
                    "validateCpa"}

\* the business tables are as they were when the call was entered
NoBusinessWrite ==
    /\ cpa_validados = call.before.cpa_validados
    /\ cpa_distributions = call.before.cpa_distributions
    /\ mlm_statistics = call.before.mlm_statistics

\* C1: if processCpaForDistribution fails after saveCpaValidado has stored the Commission
\* Event, no Commission Event and no Distribution Record written by that call remains
\* stored.
C1_AllOrNothing ==
    (CallOver /\ call.outcome = "error" /\ call.cpaValidadoId # 0)
    => /\ \A e \in cpa_validados : e.id # call.cpaValidadoId
       /\ \A d \in cpa_distributions : d.cpa_validado_id # call.cpaValidadoId

\* C2: when validateCpa returns false for the event, processCpaForDistribution aborts with
\* an error and makes no business write: the upline is not resolved and no Commission
\* Event, Distribution Record or Statistics Snapshot is created or changed.
C2_InvalidEventAborts ==
    (Validated /\ ~validateCpa(call.validationRules, call.cpaData))
    => /\ call.pc \in {"catch", "done"}
       /\ call.error = InvalidCpa
       /\ CallOver => call.outcome = "error"
       /\ call.upline = <<>>
       /\ call.cpaValidadoId = 0
       /\ NoBusinessWrite

\* C2 witness: a call for an ineligible event has been aborted while the tables hold the
\* Commission Event and the Statistics Snapshots an earlier call left.
C2_Witness ==
    /\ CallOver
    /\ call.id = 2
    /\ ~call.isValid
    /\ call.thrown = InvalidCpa
    /\ call.affiliateId = 3
    /\ cpa_validados # {}
    /\ mlm_statistics # EmptyStatistics
    /\ NoBusinessWrite

\* the Statistics Snapshot of an affiliate: its row, or nothing counted when it has none
StatisticsOf(ms, affiliateId) ==
    IF Has(ms, affiliateId) THEN ms[affiliateId]
    ELSE [total_cpas |-> 0, total_amount |-> 0, level_cpas |-> [l \in StatLevels |-> 0],
          level_amount |-> [l \in StatLevels |-> 0]]

\* the i-th calculated distribution of the call was answered with null (below the minimum)
Dropped(i) ==
    /\ i \in 1..Len(call.distributionResults)
    /\ call.distributionResults[i].returned = "null"

\* C3: a calculated distribution below mlm_settings.minimum_amount is dropped: no
\* Distribution Record is stored for it, its amount enters neither a Statistics Snapshot
\* nor the returned total, and the call still completes successfully.
C3_BelowMinimumDropped ==
    (CallOver /\ \E i \in 1..Len(call.distributions) : Dropped(i))
    => /\ call.outcome = "success"
       /\ \A i \in 1..Len(call.distributions) :
             Dropped(i) =>
                /\ \A d \in cpa_distributions :
                      ~(d.cpa_validado_id = call.cpaValidadoId
                        /\ d.affiliate_id = call.distributions[i].affiliate_id)
                /\ StatisticsOf(mlm_statistics, call.distributions[i].affiliate_id)
                      = StatisticsOf(call.before.mlm_statistics,
                                     call.distributions[i].affiliate_id)

(***************************************************************************)
(* Claims about upsertAffiliate.                                           *)
(***************************************************************************)
UpsertReturned == probe.fn = "upsertAffiliate" /\ probe.returned

\* the examined call found a row of its affiliateId with another parent_id
UpsertWasReparent ==
    UpsertReturned /\ IsReparent(probe.before, probe.affiliateId, probe.parentId)

\* the rows below a by parent pointers, a included
Subtree(h, a) ==
    {d \in AffiliateIds :
        h[d].present /\ \E k \in 0..Cardinality(AffiliateIds) : Ancestor(h, d, k) = a}

\* level and path of d agree with the row of its parent (a root, or a row whose parent
\* has no row, is at level 1 with its own id as path)
ConsistentRow(h, d) ==
    IF HasRow(h, h[d].parent_id)
    THEN /\ h[d].path = Append(h[h[d].parent_id].path, d)
         /\ h[d].level = Len(h[d].path)
    ELSE /\ h[d].path = <<d>>
         /\ h[d].level = 1

\* every stored row is consistent
ConsistentHierarchy(h) == \A d \in AffiliateIds : h[d].present => ConsistentRow(h, d)

\* C11: upsertAffiliate(a, b) for an existing node a where b is a itself or a descendant
\* of a (b's path contains a) is rejected with an error, and every hierarchy row is left
\* unchanged.
C11_CycleRejected ==
    (/\ UpsertReturned
     /\ probe.before[probe.affiliateId].present
     /\ probe.parentId # NullId
     /\ \/ probe.parentId = probe.affiliateId
        \/ /\ probe.before[probe.parentId].present
           /\ probe.affiliateId \in Range(probe.before[probe.parentId].path))
    => /\ probe.failed
       /\ mlm_hierarchy = probe.before

\* C12 (as claimed), on a consistent forest and for a new parent that is null or an
\* active row outside a's subtree:
\* after upsertAffiliate(a, b) has changed the parent of the existing node a, a and its
\* descendants have level and path rewritten consistently with their parents, and no
\* node outside a's subtree is modified.
C12_CascadeConsistent ==
    (/\ UpsertWasReparent
     /\ ~probe.failed
     /\ Forest(probe.before)
     /\ ConsistentHierarchy(probe.before)
     /\ probe.parentId = NullId \/ FoundActive(probe.before, probe.parentId)
     /\ probe.parentId \notin Subtree(probe.before, probe.affiliateId))
    => /\ mlm_hierarchy[probe.affiliateId].parent_id = probe.parentId
       /\ \A d \in Subtree(probe.before, probe.affiliateId) : ConsistentRow(mlm_hierarchy, d)
       /\ \A d \in AffiliateIds \ Subtree(probe.before, probe.affiliateId) :
             mlm_hierarchy[d] = probe.before[d]

C14_SameParentNoOp ==
    UpsertReturned =>
        /\ (/\ probe.before[probe.affiliateId].present
            /\ probe.before[probe.affiliateId].parent_id = probe.parentId)
           => mlm_hierarchy = probe.before
        /\ ~probe.failed =>
              \A ord \in UpsertOrders(mlm_hierarchy, probe.affiliateId, probe.parentId) :
                  upsertAffiliate(mlm_hierarchy, probe.affiliateId, probe.parentId,
                                  ord, FALSE).h = mlm_hierarchy

\* C14 witness: a call that names the stored parent of a node has returned without an
\* error, on a node that has a descendant and whose stored parent has been deactivated.
C14_Witness ==
    /\ UpsertReturned
    /\ ~probe.failed
    /\ probe.before[probe.affiliateId].present
    /\ probe.parentId # NullId
    /\ probe.before[probe.affiliateId].parent_id = probe.parentId
    /\ probe.before[probe.parentId].present
    /\ ~probe.before[probe.parentId].active
    /\ Cardinality(Subtree(probe.before, probe.affiliateId)) >= 2
    /\ mlm_hierarchy = probe.before

(***************************************************************************)
(* Claims about the Statistics Snapshots.                                  *)
(***************************************************************************)
StatisticsRuns == IF probe.fn = "updateStatistics" THEN probe.runs ELSE <<>>

\* every updateStatistics call made so far has ended, and none met a store error
AllRunsApplied ==
    /\ StatisticsRuns # <<>>
    /\ \A i \in 1..Len(StatisticsRuns) :
          RunOver(StatisticsRuns[i]) /\ ~StatisticsRuns[i].failed

\* the totals of affiliateId over the batches of all the runs
RECURSIVE SumOfRuns(_, _)
SumOfRuns(runs, affiliateId) ==
    IF runs = <<>>
    THEN [total_cpas |-> 0, total_amount |-> 0, level_cpas |-> [l \in StatLevels |-> 0],
          level_amount |-> [l \in StatLevels |-> 0]]
    ELSE LET rest == SumOfRuns(Tail(runs), affiliateId)
             this == StatsFor(Head(runs).batch, affiliateId)
         IN  [total_cpas |-> rest.total_cpas + this.total_cpas,
              total_amount |-> rest.total_amount + this.total_amount,
              level_cpas |-> [l \in StatLevels |-> rest.level_cpas[l] + this.level_cpas[l]],
              level_amount |-> [l \in StatLevels |->
                                   rest.level_amount[l] + this.level_amount[l]]]

\* C15: the Statistics Snapshot holds running totals: after several calls in the same
\* period, made one after the other, total_cpas, total_amount and the per-level fields of
\* a participant equal the sums over the distributions of all those calls.
C15_RunningTotals ==
    (/\ AllRunsApplied
     /\ \A i \in 1..Len(StatisticsRuns) : ~StatisticsRuns[i].overlapped)
    => \A a \in BatchPayees :
          StatisticsOf(mlm_statistics, a) = SumOfRuns(StatisticsRuns, a)

\* C16: applying the same batch of distributions twice (updateStatistics called twice
\* with the identical batch, one call after the other and no other call in flight)
\* leaves the stored totals equal to
\* the totals after the first application.
C16_SameBatchTwice ==
    \A i \in 1..(Len(StatisticsRuns) - 1) :
        (/\ RunOver(StatisticsRuns[i]) /\ RunOver(StatisticsRuns[i + 1])
         /\ ~StatisticsRuns[i].failed /\ ~StatisticsRuns[i + 1].failed
         /\ ~StatisticsRuns[i].overlapped /\ ~StatisticsRuns[i + 1].overlapped
         /\ StatisticsRuns[i + 1].batch = StatisticsRuns[i].batch)
        => /\ StatisticsRuns[i + 1].after = StatisticsRuns[i].after
           /\ i + 1 = Len(StatisticsRuns) => mlm_statistics = StatisticsRuns[i].after

\* C16 witness: the same batch, paying two participants, has been applied twice.
C16_Witness ==
    /\ Len(StatisticsRuns) = 2
    /\ AllRunsApplied
    /\ ~StatisticsRuns[1].overlapped
    /\ ~StatisticsRuns[2].overlapped
    /\ StatisticsRuns[2].batch = StatisticsRuns[1].batch
    /\ Len(StatisticsRuns[1].batch) = 2
    /\ StatisticsRuns[1].batch[1].affiliate_id # StatisticsRuns[1].batch[2].affiliate_id
    /\ DOMAIN mlm_statistics = BatchPayees
    /\ mlm_statistics = StatisticsRuns[1].after

\* C17: two concurrent calls that pay the same participant in the same period do not
\* lose an update: after both have finished, the participant's Statistics Snapshot
\* reflects the distributions of both calls, in every interleaving.
C17_NoLostUpdate ==
    (/\ AllRunsApplied
     /\ \E i \in 1..Len(StatisticsRuns) : StatisticsRuns[i].overlapped)
    => \A a \in BatchPayees :
          StatisticsOf(mlm_statistics, a) = SumOfRuns(StatisticsRuns, a)

(***************************************************************************)
(* Claims about the failures the distribution flow tolerates.              *)
(***************************************************************************)
\* the three configuration reads of the call have been made
ConfigRead == call.pc \notin {"idle", "cpa_level_amounts", "mlm_settings",
                              "cpa_validation_rules"}

\* C18: if the statistics write fails during processCpaForDistribution, the call still
\* succeeds; the statistics error is never surfaced to the caller and the stored
\* Commission Event is kept.
C18_StatisticsFailureTolerated ==
    (CallOver /\ call.statsFailed)
    => /\ call.outcome = "success"
       /\ \E e \in cpa_validados : e.id = call.cpaValidadoId

\* C19: a failure of the audit write (logOperation, a failure to obtain a database
\* connection for it included) never changes the outcome reported to the caller: a call
\* whose steps all went through still reports success, and a failing call still reports
\* its original error, not the audit error.
C19_AuditFailureHarmless ==
    (CallOver /\ call.auditFailed # "")
    => IF call.primaryError = "" THEN call.outcome = "success"
       ELSE call.outcome = "error" /\ call.thrown = call.primaryError

\* C20: when the configuration provider is unreachable and nothing is cached, the call
\* runs on default values for the payout table, the hierarchy settings and the rule set;
\* unavailability of configuration is never the reason a call fails.
C20_ConfigNeverFatal ==
    ConfigRead
    => /\ call.cpaAmounts.present
       /\ call.validationRules.present
       /\ (CallOver /\ call.primaryError = "TypeError") => call.mlmSettings.present

(***************************************************************************)
(* Claims about getConfig.                                                 *)
(***************************************************************************)
\* a getConfig call has returned (or thrown) in the behaviour
ConfigReturned == probe.fn = "getConfig" /\ probe.returned

\* the caches of ConfigClient that hold no entry for the CPA keys after a fetch
CpaKeys == {"cpa_level_amounts", "cpa_validation_rules"}

\* C21: getConfig(key) returns a cached value only while the value is within its
\* freshness horizon: a call that returns from a cache returns a value whose ttl has
\* not passed since it was stored (so that the next call after the horizon asks the
\* provider again and a changed value is returned without a push).
C21_CachedOnlyWhileFresh ==
    (ConfigReturned /\ probe.last.source \in {"configCache", "clientCache"})
    => ~probe.last.old

\* C22 as stated: on a cache miss whose fetch fails (error, timeout, 404 or unsuccessful
\* response) getConfig(key, default) does not throw and returns the caller's default,
\* for every key.
C22_DefaultOnFailure ==
    (ConfigReturned /\ probe.last.source = "failure")
    => /\ ~probe.last.threw
       /\ probe.last.value = probe.last.defaultValue

\* C22 amended: on a cache miss whose fetch fails getConfig(key, default) does not throw;
\* it returns the caller's default for every key except cpa_level_amounts and
\* cpa_validation_rules, for which it returns the built-in fallback whatever the default.
C22_DefaultOrFallbackOnFailure ==
    (ConfigReturned /\ probe.last.source = "failure")
    => /\ ~probe.last.threw
       /\ probe.last.value =
             CASE probe.last.key = "cpa_level_amounts" -> FallbackCpaLevelAmounts
               [] probe.last.key = "cpa_validation_rules" -> FallbackCpaValidationRules
               [] OTHER -> probe.last.defaultValue

\* a failed fetch of a CPA key with a supplied default has returned the fallback
C22_Witness ==
    /\ ConfigReturned
    /\ probe.last.source = "failure"
    /\ probe.last.key \in CpaKeys
    /\ probe.last.defaultValue = SuppliedDefault(probe.last.key)
    /\ probe.last.value # probe.last.defaultValue
    /\ ~probe.last.threw

\* C23: once the value delivered by a push for key k has been stored, no getConfig(k)
\* called later returns a value the provider held before that push, even when the push
\* arrived while a pull for k was in flight.
C23_StaleThenFresh ==
    (ConfigReturned /\ probe.last.pushedBefore > 0
     /\ VersionOf(probe.last.key, probe.last.value) > 0)
    => VersionOf(probe.last.key, probe.last.value) >= probe.last.pushedBefore

(***************************************************************************)
(* Claims about processPendingCpas.                                        *)
(***************************************************************************)
\* the job has fetched a list and is in or past its loop
JobLooping == probe.fn = "processPendingCpas" /\ probe.pc \in {"loop", "processing", "over"}
                  /\ ~probe.aborted
JobOver == probe.fn = "processPendingCpas" /\ probe.pc = "over" /\ ~probe.aborted

\* the number of items handled so far whose processing ended with the given outcome
CountOutcome(outcome) ==
    Cardinality({i \in 1..Len(probe.outcomes) : probe.outcomes[i] = outcome})

\* C24: in processPendingCpas every item of the fetched list is attempted exactly once,
\* in list order; an item whose processing throws is counted as an error and the
\* remaining items are still processed.
C24_EveryItemAttemptedOnce ==
    /\ JobLooping =>
          /\ Len(probe.attempted) <= Len(probe.pendingCpas)
          /\ \A i \in 1..Len(probe.attempted) :
                probe.attempted[i] = probe.pendingCpas[i].user_id
          /\ probe.errors = CountOutcome("error")
          /\ probe.processed = CountOutcome("success")
    /\ JobOver =>
          /\ Len(probe.attempted) = Len(probe.pendingCpas)
          /\ Len(probe.outcomes) = Len(probe.pendingCpas)
          /\ probe.processed + probe.errors = Len(probe.pendingCpas)

\* a job is over whose first item threw and whose second item was still processed
C24_Witness ==
    /\ JobOver
    /\ Len(probe.pendingCpas) = 2
    /\ probe.outcomes = <<"error", "success">>
    /\ probe.errors = 1
    /\ probe.processed = 1

\* C25: a source record is marked as processed only after processCpaForDistribution for
\* that record has returned successfully; a record whose processing failed or was
\* rejected is never marked.
C25_MarkedOnlyAfterSuccess ==
    probe.fn = "processPendingCpas" =>
        \A i \in 1..Len(probe.pendingCpas) :
            probe.pendingCpas[i].user_id \in probe.marked
                <=> (i <= Len(probe.outcomes) /\ probe.outcomes[i] = "success")

\* a job is over with one record marked and one record, whose event was rejected by the
\* validation, left unmarked
C25_Witness ==
    /\ JobOver
    /\ Len(probe.pendingCpas) = 2
    /\ probe.marked = {probe.pendingCpas[2].user_id}
    /\ probe.outcomes = <<"error", "success">>
    /\ call.outcome = "success"
    /\ \E i \in 1..Len(mlm_operation_logs) : mlm_operation_logs[i].error_message = InvalidCpa

(***************************************************************************)
(* Claims about the Distribution Records.                                  *)
(***************************************************************************)
\* C26: the store enforces the uniqueness of the idempotency key of a distribution: each
\* (event, participant) pair, the event being the Commission Event the record
\* references, has at most one Distribution Record and one transaction identifier, so
\* that a second submission does not create a second record.
C26_OneRecordPerEventParticipant ==
    probe.fn = "saveCpaDistribution" =>
        \A r1, r2 \in cpa_distributions :
            (r1.cpa_validado_id = r2.cpa_validado_id /\ r1.affiliate_id = r2.affiliate_id)
            => (r1.id = r2.id /\ r1.transaction_id = r2.transaction_id)

\* C27: the distributions returned by processing a CPA start with a level-1 distribution
\* to the originating affiliate (amount = level_1 of the payout table), and
\* totalDistributed includes that amount.
C27_OriginatorPaidAtLevel1 ==
    (CallOver /\ call.outcome = "success" /\ probe = IdleProbe)
    => /\ call.distributionResults # <<>>
       /\ call.distributionResults[1].row.affiliate_id = call.affiliateId
       /\ call.distributionResults[1].row.affiliate_level = 1
       /\ call.distributionResults[1].row.distributed_amount = call.cpaAmounts.amounts[1]
       /\ call.totalDistributed >= call.cpaAmounts.amounts[1]

\* C28: after any sequence of upsertAffiliate calls (no row deactivated, and none that
\* closed a cycle of parents, which C29 is about) every hierarchy row satisfies: path[last] = affiliate_id, len(path) = level, path is the parent's path
\* followed by affiliate_id when there is a parent and [affiliate_id] otherwise, and
\* path[first] is a node without a parent.
C28_PathInvariants ==
    (probe.fn \in {"none", "upsertAffiliate"}
     /\ Forest(mlm_hierarchy)
     /\ \A a \in AffiliateIds : mlm_hierarchy[a].present => mlm_hierarchy[a].active)
    => \A d \in AffiliateIds :
          mlm_hierarchy[d].present =>
             /\ mlm_hierarchy[d].path # <<>>
             /\ mlm_hierarchy[d].path[Len(mlm_hierarchy[d].path)] = d
             /\ Len(mlm_hierarchy[d].path) = mlm_hierarchy[d].level
             /\ ConsistentRow(mlm_hierarchy, d)
             /\ ~HasRow(mlm_hierarchy, mlm_hierarchy[mlm_hierarchy[d].path[1]].parent_id)

\* C29: after any sequence of upsertAffiliate calls the parent_id relation is a forest:
\* no node is reachable from itself by parent pointers.
C29_ParentForest ==
    probe.fn \in {"none", "upsertAffiliate"} => Forest(mlm_hierarchy)

(***************************************************************************)
(* Claims about concurrent upsertAffiliate calls.                          *)
(***************************************************************************)
\* both calls have committed
BothCommitted == probe.fn = "concurrentUpsert" /\ \A i \in TxnIds : probe.txns[i].pc = "done"

\* the tables upsertAffiliate(a1, p1) followed by upsertAffiliate(a2, p2) may leave
SerialOrder(h, a1, p1, a2, p2) ==
    UNION {{upsertAffiliate(h1, a2, p2, ord2, FALSE).h :
                ord2 \in UpsertOrders(h1, a2, p2)} :
           h1 \in {upsertAffiliate(h, a1, p1, ord1, FALSE).h :
                      ord1 \in UpsertOrders(h, a1, p1)}}

\* the tables the two calls may leave when one runs after the other
SerialResults ==
    LET t1 == probe.txns[1]
        t2 == probe.txns[2]
    IN  SerialOrder(probe.before, t1.affiliateId, t1.parentId, t2.affiliateId, t2.parentId)
        \cup SerialOrder(probe.before, t2.affiliateId, t2.parentId,
                         t1.affiliateId, t1.parentId)

\* the two calls re-parent the roots of two disjoint subtrees, and run one after the
\* other, in either order, they leave a consistent table
DisjointReparents ==
    LET t1 == probe.txns[1]
        t2 == probe.txns[2]
    IN  /\ IsReparent(probe.before, t1.affiliateId, t1.parentId)
        /\ IsReparent(probe.before, t2.affiliateId, t2.parentId)
        /\ Subtree(probe.before, t1.affiliateId) \cap Subtree(probe.before, t2.affiliateId)
              = {}
        /\ \A h \in SerialResults : ConsistentHierarchy(h) /\ Forest(h)

\* C30: two concurrent upsertAffiliate calls that re-parent the roots of two disjoint
\* subtrees leave, in every interleaving of their statements, every node of both
\* subtrees with a path and level consistent with its stored parent chain: the table
\* equals that of some serial order of the two calls.
C30_DisjointMovesSerializable ==
    (BothCommitted /\ DisjointReparents)
    => /\ \A d \in Subtree(probe.before, probe.txns[1].affiliateId)
                      \cup Subtree(probe.before, probe.txns[2].affiliateId) :
             ConsistentRow(mlm_hierarchy, d)
       /\ mlm_hierarchy \in SerialResults

(***************************************************************************)
(* Claims about the order of the steps of processCpaForDistribution.       *)
(***************************************************************************)
\* the steps of a call, numbered in the order of the claim; the reads of the
\* configuration come before the first of them
Stage(pc) ==
    CASE pc \in ConfigKeys -> 0
      [] pc = "validateCpa" -> 1
      [] pc = "getAffiliateUpline" -> 2          \* resolve upline, calculate
      [] pc = "saveCpaValidado" -> 3             \* store the Commission Event
      [] pc = "executeCpaDistribution" -> 4      \* store the Distribution Records
      [] pc = "updateStatistics" -> 5
      [] pc = "logOperation" -> 6                \* SUCCESS audit, return
      [] OTHER -> 7

\* a step of the call in progress
CallStep == call.pc \notin {"idle", "done"} /\ call' # call

\* the step goes on to the next stage, repeats the loop of its stage, or passes over a
\* loop that has nothing to do
InOrder ==
    LET s == Stage(call.pc)
        t == Stage(call'.pc)
    IN  /\ call'.pc \notin {"catch", "done"}
        /\ \/ t = s + 1
           \/ t = s /\ s \in {0, 4, 5}
           \/ /\ s = 3
              /\ t \in {5, 6}
              /\ call.distributions = <<>>
        /\ (call.pc = "validateCpa") => call'.isValid
        /\ (call.pc = "executeCpaDistribution" /\ t = 4) => call'.next = call.next + 1
        /\ (call.pc = "executeCpaDistribution" /\ t > 4)
              => Len(call'.distributionResults) = Len(call.distributions)

\* the rejection exit, taken right after validation and nowhere else
RejectionExit ==
    /\ call.pc = "validateCpa"
    /\ call'.pc = "catch"
    /\ ~call'.isValid
    /\ call'.error = InvalidCpa

\* the failure exit: an error thrown by a step, and the catch block rethrowing it
FailureExit ==
    \/ call.pc \notin {"catch", "validateCpa"} /\ call'.pc = "catch"
          /\ call'.error # InvalidCpa
    \/ call.pc = "catch" /\ call'.pc = "done" /\ call'.outcome = "error"

\* the return of the result after the SUCCESS audit
ReturnExit == call.pc = "logOperation" /\ call'.pc = "done" /\ call'.outcome = "success"

\* every table is written by its own step only
WrittenByOwnStep ==
    /\ cpa_validados' # cpa_validados => call.pc = "saveCpaValidado"
    /\ cpa_distributions' # cpa_distributions => call.pc = "executeCpaDistribution"
    /\ mlm_statistics' # mlm_statistics => call.pc = "updateStatistics"
    /\ mlm_operation_logs' # mlm_operation_logs => call.pc \in {"logOperation", "catch"}

\* C31: each processCpaForDistribution call performs its steps in the fixed order
\* validate, resolve upline and calculate, store the Commission Event, store the
\* Distribution Records, update statistics, write the SUCCESS audit, return; no step
\* runs before its predecessor has completed or runs twice, and the only branches are the
\* rejection exit right after validation and the failure exit on an error.
C31_StepsInFixedOrder ==
    [][/\ CallStep => (InOrder \/ RejectionExit \/ FailureExit \/ ReturnExit)
       /\ WrittenByOwnStep]_vars

\* C31 witness: a call has gone through every step up to the audit write, with
\* distributions handled and statistics written.
C31_Witness ==
    /\ call.pc = "logOperation"
    /\ call.isValid
    /\ call.upline # <<>>
    /\ Len(call.distributionResults) = Len(call.distributions)
    /\ call.distributionResults # <<>>
    /\ \E e \in cpa_validados : e.id = call.cpaValidadoId
    /\ ~call.statsFailed
    /\ mlm_statistics # call.before.mlm_statistics

(***************************************************************************)
(* Claims about the audit entries of processCpaForDistribution.            *)
(***************************************************************************)
\* C32: every processCpaForDistribution call writes exactly one audit entry whose status
\* matches the outcome given to the caller: an ERROR entry with the error message exactly
\* when the call throws, a SUCCESS entry exactly when it returns a result, never both.
\* Stated for the first call of a behaviour whose audit writes were all accepted by the
\* store.
C32_OneAuditEntryMatchingOutcome ==
    (CallOver /\ call.id = 1 /\ call.auditFailed = "")
    => /\ Len(mlm_operation_logs) = 1
       /\ IF call.outcome = "success"
          THEN mlm_operation_logs[1].status = "SUCCESS"
          ELSE /\ mlm_operation_logs[1].status = "ERROR"
               /\ mlm_operation_logs[1].error_message = call.thrown

(***************************************************************************)
(* Claims about the Distribution Records of a successful call.             *)
(***************************************************************************)
\* the call read the three values the provider holds
ProviderAnswered ==
    /\ call.cpaAmounts = provider.cpa_level_amounts
    /\ call.mlmSettings = provider.mlm_settings
    /\ call.validationRules = provider.cpa_validation_rules

\* no store operation of the call failed to connect or had its statement cut off
StoreAvailable ==
    /\ call.primaryError \notin {DbError("connect"), DbError("query")}
    /\ call.auditFailed = ""
    /\ ~call.statsFailed

\* the Distribution Records stored by the call
RecordsOfCall == {d \in cpa_distributions : d.cpa_validado_id = call.cpaValidadoId}

\* C38: with the configuration provider and the store available, an eligible event whose
\* upline holds at least one payable level (here: every calculated level is at or above
\* the minimum) completes successfully and stores exactly one Distribution Record per
\* payable level, each satisfying the constraints of cpa_distributions.
C38_PayableLevelsStored ==
    (/\ CallOver
     /\ ProviderAnswered
     /\ StoreAvailable
     /\ call.isValid
     /\ call.distributions # <<>>
     /\ \A i \in 1..Len(call.distributions) :
           call.distributions[i].amount >= call.mlmSettings.minimum_amount)
    => /\ call.outcome = "success"
       /\ Cardinality(RecordsOfCall) = Len(call.distributions)
       /\ \A i \in 1..Len(call.distributions) :
             \E d \in RecordsOfCall :
                /\ d.affiliate_id = call.distributions[i].affiliate_id
                /\ d.affiliate_level = call.distributions[i].affiliate_level
                /\ RowAccepted(d)

(***************************************************************************)
(* Claims about what MLMService.getConfig keeps after a failed fetch.      *)
(***************************************************************************)
\* C36: a default returned by MLMService.getConfig because the fetch failed is not kept
\* as a cache entry: a later getConfig(key) that is answered from configCache returns a
\* value the provider held, never the default of an earlier failed fetch.  Stated for
\* mlm_settings, the key the service reads whose failed fetch yields the caller's default.
C36_DefaultNotCached ==
    (/\ ConfigReturned
     /\ probe.last.key = "mlm_settings"
     /\ probe.last.source = "configCache")
    => VersionOf(probe.last.key, probe.last.value) # 0

(***************************************************************************)
(* Claims about the settings a call works with.                            *)
(***************************************************************************)
\* C37: within one processCpaForDistribution call every step uses the mlm_settings read
\* at the start of the call: a distribution is dropped as below the minimum exactly when
\* its amount is below the minimum_amount of those settings, also when a push replaces
\* mlm_settings while the call is in progress.
C37_OneSettingsSnapshot ==
    (call.pc # "idle" /\ call.mlmSettings.present)
    => /\ \A i \in 1..Len(call.distributionResults) :
             Dropped(i) <=> call.distributions[i].amount < call.mlmSettings.minimum_amount
       /\ call.primaryError = NotNullViolation
             => call.distributions[call.next].amount >= call.mlmSettings.minimum_amount

(***************************************************************************)
(* Claims about the termination of processCpaForDistribution.              *)
(***************************************************************************)
\* C34: every processCpaForDistribution call eventually ends with a result or an error:
\* a configuration fetch or a store operation that is never answered is cut off by a
\* timeout and the call fails instead of hanging.
C34_EveryCallTerminates == (call.pc \notin {"idle", "done"}) ~> (call.pc = "done")

\* the part of C34 the code does provide: a call suspended at an unanswered configuration
\* request eventually goes on
C34_ConfigFetchCutOff == (call.pc = "awaitingConfig") ~> (call.pc # "awaitingConfig")

(***************************************************************************)
(* Claims about the WebSocket of ConfigClient.                             *)
(***************************************************************************)
\* the cap is reached: the counter stands at wsMaxReconnectAttempts, the last socket is
\* closed (or was never created) and no reconnect is pending
CapReached ==
    /\ probe.fn = "socket"
    /\ probe.wsReconnectAttempts = probe.wsMaxReconnectAttempts
    /\ probe.ws \in {"closed", "none"}
    /\ ~probe.timer

\* at most wsMaxReconnectAttempts attempts since the last open, and getConfig can still
\* be called once the cap is reached
ReconnectsCapped ==
    /\ probe.sinceOpen <= probe.wsMaxReconnectAttempts
    /\ probe.wsReconnectAttempts <= probe.wsMaxReconnectAttempts
    /\ CapReached => ENABLED ClientGetConfigCall

\* the counter goes down only at a successful open, and at the cap no timer is armed and
\* no connection is attempted
ResetOnlyByOpen ==
    /\ probe'.wsReconnectAttempts < probe.wsReconnectAttempts
          => (probe.ws = "connecting" /\ probe'.ws = "open")
    /\ (probe'.timer /\ ~probe.timer)
          => probe.wsReconnectAttempts < probe.wsMaxReconnectAttempts
    /\ CapReached => (~probe'.timer /\ probe'.ws = probe.ws
                      /\ probe'.sinceOpen = probe.sinceOpen)

\* C33: after a transport loss the client makes at most wsMaxReconnectAttempts (default
\* 10) consecutive reconnect attempts without a successful open; the attempt counter is
\* reset only by a successful open; once the cap is reached no further attempt is
\* scheduled, and getConfig keeps answering.
C33_ReconnectAttemptsCapped == [](ReconnectsCapped) /\ [][ResetOnlyByOpen]_vars

\* C33 witness: with the default cap, ten reconnect attempts were made without an open,
\* nothing more is scheduled, and getConfig has answered since.
C33_Witness ==
    /\ CapReached
    /\ probe.wsMaxReconnectAttempts = DefaultMaxReconnectAttempts
    /\ probe.sinceOpen = DefaultMaxReconnectAttempts
    /\ probe.urlValid
    /\ probe.answeredAtCap

\* C35: whenever the WebSocket is open, a subscribe message sent on this connection
\* covers every key that has a registered change callback, whether the key was
\* subscribed while the socket was not open or its subscription was lost with an earlier
\* connection.
C35_SubscribedOnEveryOpen ==
    (probe.fn = "socket" /\ probe.ws = "open")
    => probe.changeCallbacks \subseteq probe.subscribed

\* C35 witness: the socket is open again after a connection with subscriptions was lost,
\* and a key subscribed while the socket was not open is covered.
C35_Witness ==
    /\ probe.fn = "socket"
    /\ probe.ws = "open"
    /\ probe.lost
    /\ probe.late # {}
    /\ probe.late \subseteq probe.subscribed
    /\ probe.changeCallbacks = ConfigKeys

\* C40: after close() has been called, no reconnect is scheduled and no new WebSocket
\* connection is opened by the client.  Stated for a client whose wsURL is well-formed.
C40_NoReconnectAfterClose ==
    (probe.fn = "socket" /\ probe.urlValid /\ probe.closeCalled) => probe.afterClose = {}

(***************************************************************************)
(* Claims about the triggers of CpaProcessingJob.                          *)
(***************************************************************************)
\* a trigger arrives during a run: nothing is started, the tick is skipped or runManual
\* throws
TriggerDuringRunRefused ==
    (probe.runs # <<>> /\ probe'.triggers = probe.triggers + 1)
    => /\ probe'.runs = probe.runs
       /\ probe'.isRunning
       /\ probe'.skipped \/ probe'.rejected

\* C39: batch runs of one CpaProcessingJob never overlap: while a processPendingCpas run
\* started by a cron tick or by runManual is in progress, a cron tick is skipped and
\* runManual throws; and isRunning is false again after every run has ended, whether it
\* returned early on an empty list, completed, or failed.
C39_RunsNeverOverlap ==
    /\ [](probe.fn = "schedule"
          => /\ Len(probe.runs) <= 1
             /\ probe.isRunning <=> probe.runs # <<>>)
    /\ [][TriggerDuringRunRefused]_vars

\* C39 witness: runs have ended in each of the three ways, a tick was skipped and a
\* runManual call rejected meanwhile, and no run is in progress.
C39_Witness ==
    /\ probe.fn = "schedule"
    /\ probe.ended = {"empty", "completed", "failed"}
    /\ probe.skipped
    /\ probe.rejected
    /\ probe.runs = <<>>
    /\ ~probe.isRunning

====
